---- MODULE Spec2Model ----
(***************************************************************************)
(* State-machine model of the media bridge (bridge.go) and of the Gemini   *)
(* session handler (gemini.go) of herbiel/sip-proxy.                       *)
(*                                                                         *)
(* Goroutines are processes with a program counter; every action is one    *)
(* atomic step of the Go code (a channel operation, a critical section of  *)
(* one mutex, one call of an external io.Writer or of the backend client). *)
(* A Go panic that nothing recovers ends the process: it is recorded in    *)
(* `crashed`, and no action is enabled afterwards.                         *)
(***************************************************************************)
EXTENDS Naturals, Integers, Sequences, FiniteSets, TLC

(***************************************************************************)
(* Bounds of the model and program constants.                              *)
(***************************************************************************)
\* capacity of chunkChan: make(chan *MediaChunk, 200)
QueueCap == 200
\* Broadcast calls made by the telephony side in the concurrent specifications
MaxBroadcasts == 2
\* messages the backend delivers to the receive loop
MaxMessages == 1
\* Broadcast calls beyond the queue's capacity in the queue-filling specification
MaxOverflow == 2
\* length of the longest PCM buffer given to splitIntoChunks
MaxLen == 4

\* participant ids, and the participant objects (pointers) that carry them
IDs == {"A", "B", "G"}
BaseObjs == {"pA", "pA2", "pB"}
HandlerObj == "pG"
Objs == BaseObjs \cup {HandlerObj}
None == "none"

\* BaseParticipant.ID()
ID(p) == CASE p = "pA" -> "A"
           [] p = "pA2" -> "A"
           [] p = "pB" -> "B"
           [] p = "pG" -> "G"

\* the io.Writer values a participant can hold
NilWriter == "nil"
SinkWriter == "sink"
GeminiWriter == "gemini"

\* what an io.Writer's Write returns: nil, io.ErrClosedPipe, another error
WriteOk == "ok"
ErrClosedPipe == "io.ErrClosedPipe"
ErrOther == "error"
WriteResults == {WriteOk, ErrClosedPipe, ErrOther}

\* the byte payloads of the chunks the model broadcasts
Payloads == {<<1, 2, 3>>}

\* goroutines: fan-out workers (one per Start call), callers of Stop
Workers == {1, 2}
Stoppers == {1, 2}
\* callers of GeminiHandler.Start (each spawns one receive loop), callers of Close
Starters == {1, 2}
Closers == {1, 2}
\* the session handles Connect can return; NilSession is the nil pointer
Sessions == {1, 2}
NilSession == 0
\* a *genai.LiveServerMessage: the nil pointer, or the flags the loop reads
NilMessage == [nil |-> TRUE, audio |-> FALSE, interrupted |-> FALSE]

NoChunk == [Data |-> <<>>, SenderID |-> None, seq |-> 0]

VARIABLES
    participants,   \* DefaultMediaBridge.participants: id -> participant or None
    chunkChan,      \* DefaultMediaBridge.chunkChan: the buffered channel's content
    stopChan,       \* DefaultMediaBridge.stopChan: "open" or "closed"
    wg,             \* DefaultMediaBridge.wg: the WaitGroup's counter
    writer,         \* BaseParticipant.writer of every participant object
    worker,         \* the fan-out goroutines: position and locals
    stopper,        \* the callers of Stop: position
    crashed,        \* "none", or the panic that ended the process
    written,        \* per participant object: the Write calls its writer received
    calls,          \* per Broadcast call (by seq): what the call saw and returned
    hist,           \* registry history: what the calls made so far should leave
    lim,            \* the budget of calls of the specification (never changes)
    split,          \* one call of splitIntoChunks: arguments, offset, chunks
    setter,         \* one call of BaseParticipant.SetWriter: position, arguments
    handler,        \* GeminiHandler: session, sessionClosed, stopChan, wg, ...
    starter,        \* the callers of GeminiHandler.Start: position and locals
    loop,           \* the receiveResponses goroutines: position and locals
    closer,         \* the callers of GeminiHandler.Close: position and locals
    sess,           \* the backend sessions Connect returned, and their Close calls
    stats           \* counters of the handler's calls on the backend and the bridge

bridgeVars == <<participants, chunkChan, stopChan, wg, writer, worker, stopper,
                crashed, written, calls, hist, lim, split, setter>>
handlerVars == <<handler, starter, loop, closer, sess, stats>>
vars == <<bridgeVars, handlerVars>>

Alive == crashed = "none"

\* delete(m.participants, id) for every id of ids
Delete(reg, ids) == [i \in IDs |-> IF i \in ids THEN None ELSE reg[i]]

\* an insertion that keeps the entry an id already has
InsertIfAbsent(reg, p) == IF reg[ID(p)] = None THEN [reg EXCEPT ![ID(p)] = p] ELSE reg

\* m.participants[id] = participant
Insert(reg, p) == [reg EXCEPT ![ID(p)] = p]

\* if _, exists := m.participants[id]; exists { delete(m.participants, id) }
RemoveEntry(reg, id) == IF reg[id] # None THEN Delete(reg, {id}) ELSE reg

\* the ids the registry has an entry for
Present(reg) == {i \in IDs : reg[i] # None}

(***************************************************************************)
(* m.mu. A critical section is one step; the field mu of a goroutine says  *)
(* what it holds of m.mu between its steps ("none", or "read" after an     *)
(* RLock that its step has not paired with an RUnlock). m.mu.Lock() waits  *)
(* until no goroutine holds the mutex.                                     *)
(***************************************************************************)
MuFree ==
    /\ \A w \in Workers : worker[w].mu = "none"
    /\ \A l \in Starters : loop[l].mu = "none"

(***************************************************************************)
(* Bridge: AddParticipant, RemoveParticipant (each one critical section of *)
(* m.mu).                                                                  *)
(***************************************************************************)
AddParticipant(p) ==
    /\ Alive
    /\ MuFree
    /\ participants' = Insert(participants, p)
    /\ hist' = [hist EXCEPT !.user = [@ EXCEPT ![ID(p)] = p],
                            !.kept = [@ EXCEPT ![ID(p)] = p]]
    /\ UNCHANGED <<chunkChan, stopChan, wg, writer, worker, stopper, crashed,
                   written, calls, lim, split, setter, handlerVars>>

RemoveParticipant(id) ==
    /\ Alive
    /\ MuFree
    /\ participants' = RemoveEntry(participants, id)
    /\ hist' = [hist EXCEPT !.user = [@ EXCEPT ![id] = None],
                            !.kept = [@ EXCEPT ![id] = None]]
    /\ UNCHANGED <<chunkChan, stopChan, wg, writer, worker, stopper, crashed,
                   written, calls, lim, split, setter, handlerVars>>

(***************************************************************************)
(* Bridge: Broadcast. One select over the send, the stop signal and the    *)
(* default; when several cases are ready Go picks one of them at random.   *)
(***************************************************************************)
\* a Broadcast whose send case does not depend on the room left in the queue
BroadcastCasesNoCap(queue, stop) ==
    {c \in {"send", "stop"} : c = "send" \/ stop = "closed"}

BroadcastCases(queue, stop) ==
    {c \in {"send", "stop", "default"} :
        \/ c = "send" /\ Len(queue) < QueueCap
        \/ c = "stop" /\ stop = "closed"
        \/ c = "default" /\ Len(queue) >= QueueCap /\ stop # "closed"}

\* the call's record: what it saw, which case ran, what it returned
CallRecord(c, chunk, queue, stop) ==
    [case |-> c,
     sender |-> chunk.SenderID,
     ret |-> IF c = "stop" THEN ErrClosedPipe ELSE "nil",
     full |-> Len(queue) >= QueueCap,
     stopped |-> stop = "closed"]

\* a Broadcast that makes room for the incoming chunk by dropping the oldest
BroadcastChunkDropOldest(chunk) ==
    \E c \in BroadcastCases(chunkChan, stopChan) :
        /\ chunkChan' = IF c = "send" THEN Append(chunkChan, chunk)
                        ELSE IF c = "default" THEN Append(Tail(chunkChan), chunk)
                        ELSE chunkChan
        /\ calls' = Append(calls, CallRecord(c, chunk, chunkChan, stopChan))

BroadcastChunk(chunk) ==
    \E c \in BroadcastCases(chunkChan, stopChan) :
        /\ chunkChan' = IF c = "send" THEN Append(chunkChan, chunk) ELSE chunkChan
        /\ calls' = Append(calls, CallRecord(c, chunk, chunkChan, stopChan))

Broadcast(s, d) ==
    /\ Alive
    /\ Len(calls) < lim.broadcasts
    /\ BroadcastChunk([Data |-> d, SenderID |-> s, seq |-> Len(calls) + 1])
    /\ UNCHANGED <<participants, stopChan, wg, writer, worker, stopper, crashed,
                   written, hist, lim, split, setter, handlerVars>>

\* the panic of an Add, or of the Done it overlaps, when the Add raises the
\* counter from 0 while the Done that brought it to 0 has not yet reset the
\* state and released the goroutines blocked in Wait
WaitMisuse == "sync: WaitGroup misuse: Add called concurrently with Wait"

\* wg.Add(1): a goroutine released from Wait that has not run since may still
\* be counted as a waiter when the Add arrives, and then the Add panics
AddOutcomes(counter, waiters) ==
    IF counter = 0 /\ \E s \in DOMAIN waiters : waiters[s] = "released"
    THEN {"added", WaitMisuse}
    ELSE {"added"}

(***************************************************************************)
(* Bridge: Start. wg.Add(1) and the spawn of one more fan-out goroutine;   *)
(* nothing in Start looks at a worker a previous call has spawned.         *)
(***************************************************************************)
Start(w) ==
    /\ Alive
    /\ worker[w].pc = "off"
    /\ \A v \in Workers : worker[v].pc = "off" => w <= v   \* the goroutines are interchangeable
    /\ Cardinality({v \in Workers : worker[v].pc # "off"}) < lim.starts
    /\ \E o \in AddOutcomes(wg, stopper) :
         IF o = WaitMisuse
         THEN /\ crashed' = WaitMisuse
              /\ UNCHANGED <<wg, worker>>
         ELSE /\ wg' = wg + 1
              /\ worker' = [worker EXCEPT
                    ![w].pc = "select",
                    ![w].late = \E s \in Stoppers :
                                 stopper[s] \in {"clear", "return", "done"},
                    ![w].afterStop =
                        lim.trace /\ \E s \in Stoppers : stopper[s] = "done"]
              /\ UNCHANGED crashed
    /\ UNCHANGED <<participants, chunkChan, stopChan, writer, stopper,
                   written, calls, hist, lim, split, setter, handlerVars>>

\* the worker's select: a chunk to receive, the stop signal, or both
SelectCases(queue, stop) ==
    {c \in {"recv", "stop"} :
        \/ c = "recv" /\ queue # <<>>
        \/ c = "stop" /\ stop = "closed"}

\* wg.Done(): when the counter reaches 0 the goroutines blocked in wg.Wait()
\* are released; each of them returns from Wait when it runs next
Released(waiters, counter) ==
    [s \in DOMAIN waiters |->
        IF counter = 0 /\ waiters[s] = "blocked" THEN "released" ELSE waiters[s]]

WorkerSelect(w) ==
    /\ Alive
    /\ worker[w].pc = "select"
    /\ \E c \in SelectCases(chunkChan, stopChan) :
        IF c = "recv"
        THEN /\ chunkChan' = Tail(chunkChan)
             /\ worker' = [worker EXCEPT ![w].pc = "snapshot",
                                         ![w].chunk = Head(chunkChan)]
             /\ UNCHANGED <<wg, stopper>>
        ELSE /\ worker' = [worker EXCEPT ![w].pc = "done"]
             /\ wg' = wg - 1
             /\ stopper' = Released(stopper, wg - 1)
             /\ UNCHANGED chunkChan
    /\ UNCHANGED <<participants, stopChan, writer, crashed, written,
                   calls, hist, lim, split, setter, handlerVars>>

\* a fan-out that deletes a failed participant as soon as its write has failed
AfterEntryEager(todo, remove) ==
    IF remove # {} THEN "remove" ELSE IF todo # {} THEN "iter" ELSE "select"

\* where the worker goes once an entry of the snapshot has been handled
AfterEntry(todo, remove) ==
    IF todo # {} THEN "iter" ELSE IF remove # {} THEN "remove" ELSE "select"

\* a fan-out that keeps m.mu.RLock while it writes to the participants
WorkerSnapshotHolding(w) ==
    /\ Alive
    /\ worker[w].pc = "snapshot"
    /\ worker' = [worker EXCEPT
            ![w].participantsSnapshot = participants,
            ![w].todo = Present(participants),
            ![w].participantsToRemove = {},
            ![w].noWriter = {},
            ![w].failed = {},
            ![w].errored = {},
            ![w].mu = "read",
            ![w].pc = AfterEntry(Present(participants), {})]
    /\ UNCHANGED <<participants, chunkChan, stopChan, wg, writer, stopper,
                   crashed, written, calls, hist, lim, split, setter, handlerVars>>

\* broadcastChunk: the copy of the registry under m.mu.RLock
WorkerSnapshot(w) ==
    /\ Alive
    /\ worker[w].pc = "snapshot"
    /\ worker' = [worker EXCEPT
            ![w].participantsSnapshot = participants,
            ![w].todo = Present(participants),
            ![w].participantsToRemove = {},
            ![w].noWriter = {},
            ![w].failed = {},
            ![w].errored = {},
            ![w].mu = "none",
            ![w].pc = AfterEntry(Present(participants), {})]
    /\ UNCHANGED <<participants, chunkChan, stopChan, wg, writer, stopper,
                   crashed, written, calls, hist, lim, split, setter, handlerVars>>

\* a fan-out that forgets the sender check
IsSenderNever(id, chunk) == FALSE

\* if id == chunk.SenderID { continue }
IsSender(id, chunk) == id = chunk.SenderID

\* a fan-out for which every error of a Write is terminal
TerminalAny(r) == r # WriteOk

\* if err == io.ErrClosedPipe
Terminal(r) == r = ErrClosedPipe

\* what the Write of a participant's sink can return (a scenario may hold
\* sinks that never fail)
SinkResults(failures) == IF failures THEN WriteResults ELSE {WriteOk}

\* one Write call on a participant's writer, as the writer's log sees it
Written(log, p, chunk) == [log EXCEPT ![p] = Append(@, <<chunk.seq, chunk.Data>>)]

\* a SetWriter on participant p has begun its store and not finished it
Rebinding(p) == setter.pc = "writing" /\ setter.p = p

\* broadcastChunk: one iteration of the loop over the snapshot, for an entry
\* whose writer is not the Gemini audio writer
WorkerIter(w, id) ==
    /\ Alive
    /\ worker[w].pc = "iter"
    /\ id \in worker[w].todo
    /\ LET p == worker[w].participantsSnapshot[id]
           chunk == worker[w].chunk
           todo == worker[w].todo \ {id}
       IN /\ IsSender(id, chunk) \/ writer[p] # GeminiWriter
          /\ IsSender(id, chunk) \/ ~Rebinding(p)
          /\ \E r \in SinkResults(lim.failures) :
               IF IsSender(id, chunk)
               THEN /\ r = WriteOk
                    /\ worker' = [worker EXCEPT
                         ![w].todo = todo,
                         ![w].pc = AfterEntry(todo, worker[w].participantsToRemove)]
                    /\ UNCHANGED written
               ELSE IF writer[p] = NilWriter
               THEN /\ r = WriteOk
                    /\ worker' = [worker EXCEPT
                         ![w].todo = todo,
                         ![w].noWriter = @ \cup {id},
                         ![w].pc = AfterEntry(todo, worker[w].participantsToRemove)]
                    /\ UNCHANGED written
               ELSE LET remove == IF Terminal(r)
                                  THEN worker[w].participantsToRemove \cup {id}
                                  ELSE worker[w].participantsToRemove
                    IN /\ written' = Written(written, p, chunk)
                       /\ worker' = [worker EXCEPT
                            ![w].todo = todo,
                            ![w].failed = IF Terminal(r) THEN @ \cup {id} ELSE @,
                            ![w].errored = IF lim.trace /\ r = ErrOther
                                           THEN @ \cup {id} ELSE @,
                            ![w].participantsToRemove = remove,
                            ![w].pc = AfterEntry(todo, remove)]
    /\ UNCHANGED <<participants, chunkChan, stopChan, wg, writer, stopper,
                   crashed, calls, hist, lim, split, setter, handlerVars>>

\* broadcastChunk: the batched removal under m.mu.Lock
WorkerRemove(w) ==
    /\ Alive
    /\ MuFree
    /\ worker[w].pc = "remove"
    /\ participants' = Delete(participants, worker[w].participantsToRemove)
    /\ worker' = [worker EXCEPT ![w].pc = "select"]
    /\ hist' = [hist EXCEPT
            !.kept = [i \in IDs |-> IF i \in worker[w].failed THEN None ELSE @[i]]]
    /\ UNCHANGED <<chunkChan, stopChan, wg, writer, stopper, crashed, written,
                   calls, lim, split, setter, handlerVars>>

(***************************************************************************)
(* BaseParticipant.SetWriter and Writer. The struct has no mutex: SetWriter *)
(* is the plain store p.writer = writer of an interface value (two words), *)
(* Writer the plain load. A load by the worker while a store is under way   *)
(* is a data race, whose outcome is the old value, the new one, or a value *)
(* made of one word of each, on which the call of Write crashes.           *)
(***************************************************************************)
TornWriter == "torn"

SetWriterBegin(p, wr) ==
    /\ Alive
    /\ setter.pc = "idle"
    /\ setter' = [setter EXCEPT !.pc = "writing", !.p = p, !.writer = wr]
    /\ UNCHANGED <<participants, chunkChan, stopChan, wg, writer, worker,
                   stopper, crashed, written, calls, hist, lim, split, handlerVars>>

SetWriterEnd ==
    /\ Alive
    /\ setter.pc = "writing"
    /\ writer' = [writer EXCEPT ![setter.p] = setter.writer]
    /\ setter' = [setter EXCEPT !.pc = "done"]
    /\ UNCHANGED <<participants, chunkChan, stopChan, wg, worker, stopper,
                   crashed, written, calls, hist, lim, split, handlerVars>>

\* what a load of p.writer can give while a store of wr into it is under way
RacyLoads(old, wr) == {old, wr, TornWriter}

\* broadcastChunk: one iteration of the loop over the snapshot whose call of
\* participant.Writer() runs while SetWriter is storing into that participant
WorkerIterRacy(w, id) ==
    /\ Alive
    /\ worker[w].pc = "iter"
    /\ id \in worker[w].todo
    /\ LET p == worker[w].participantsSnapshot[id]
           chunk == worker[w].chunk
           todo == worker[w].todo \ {id}
       IN /\ ~IsSender(id, chunk)
          /\ Rebinding(p)
          /\ \E seen \in RacyLoads(writer[p], setter.writer) :
               IF seen = TornWriter
               THEN /\ crashed' = "broadcastChunk: invalid interface value"
                    /\ UNCHANGED <<worker, written>>
               ELSE IF seen = NilWriter
               THEN /\ worker' = [worker EXCEPT
                         ![w].todo = todo,
                         ![w].noWriter = @ \cup {id},
                         ![w].pc = AfterEntry(todo, worker[w].participantsToRemove)]
                    /\ UNCHANGED <<crashed, written>>
               ELSE /\ written' = Written(written, p, chunk)
                    /\ worker' = [worker EXCEPT
                         ![w].todo = todo,
                         ![w].pc = AfterEntry(todo, worker[w].participantsToRemove)]
                    /\ UNCHANGED crashed
    /\ setter' = [setter EXCEPT !.raced = TRUE]
    /\ UNCHANGED <<participants, chunkChan, stopChan, wg, writer, stopper,
                   calls, hist, lim, split, handlerVars>>

(***************************************************************************)
(* Bridge: Stop. close(m.stopChan) panics when the channel is closed       *)
(* already; then wg.Wait(), then the registry is replaced by an empty map. *)
(***************************************************************************)
StopClose(s) ==
    /\ Alive
    /\ stopper[s] = "idle"
    /\ \A t \in Stoppers : stopper[t] = "idle" => s <= t
    /\ Cardinality({t \in Stoppers : stopper[t] # "idle"}) < lim.stops
    /\ IF stopChan = "closed"
       THEN /\ crashed' = "Stop: close of closed channel"
            /\ UNCHANGED <<stopChan, stopper>>
       ELSE /\ stopChan' = "closed"
            /\ stopper' = [stopper EXCEPT ![s] = "wait"]
            /\ UNCHANGED crashed
    /\ UNCHANGED <<participants, chunkChan, wg, writer, worker, written, calls,
                   hist, lim, split, setter, handlerVars>>

\* m.wg.Wait(): the call returns at once when the counter is 0 and blocks
\* otherwise
StopWait(s) ==
    /\ Alive
    /\ stopper[s] = "wait"
    /\ stopper' = [stopper EXCEPT ![s] = IF wg = 0 THEN "clear" ELSE "blocked"]
    /\ UNCHANGED <<participants, chunkChan, stopChan, wg, writer, worker,
                   crashed, written, calls, hist, lim, split, setter, handlerVars>>

\* the panic of a Wait that finds the counter raised again once it is released
WaitReused == "sync: WaitGroup is reused before previous Wait has returned"

\* m.wg.Wait(), released by the last Done: it reads the state again and
\* panics when an Add has raised the counter since
StopWake(s) ==
    /\ Alive
    /\ stopper[s] = "released"
    /\ IF wg # 0
       THEN /\ crashed' = WaitReused
            /\ UNCHANGED stopper
       ELSE /\ stopper' = [stopper EXCEPT ![s] = "clear"]
            /\ UNCHANGED crashed
    /\ UNCHANGED <<participants, chunkChan, stopChan, wg, writer, worker,
                   written, calls, hist, lim, split, setter, handlerVars>>

\* m.mu.Lock(); m.participants = make(map[string]Participant); m.mu.Unlock()
StopClear(s) ==
    /\ Alive
    /\ MuFree
    /\ stopper[s] = "clear"
    /\ participants' = [i \in IDs |-> None]
    /\ stopper' = [stopper EXCEPT ![s] = "return"]
    /\ hist' = [hist EXCEPT !.kept = [i \in IDs |-> None], !.cleared = TRUE]
    /\ UNCHANGED <<chunkChan, stopChan, wg, writer, worker, crashed, written,
                   calls, lim, split, setter, handlerVars>>

\* slog.Info("Media bridge stopped"); return nil: the lock is released, and
\* the other goroutines run before Stop returns
StopReturn(s) ==
    /\ Alive
    /\ stopper[s] = "return"
    /\ stopper' = [stopper EXCEPT ![s] = "done"]
    /\ UNCHANGED <<participants, chunkChan, stopChan, wg, writer, worker,
                   crashed, written, calls, hist, lim, split, setter,
                   handlerVars>>

(***************************************************************************)
(* GeminiHandler: NewGeminiHandler registers the handler's participant,    *)
(* whose writer is the GeminiAudioWriter, in the bridge.                   *)
(***************************************************************************)
NewGeminiHandler ==
    /\ Alive
    /\ MuFree
    /\ ~handler.created
    /\ handler' = [handler EXCEPT !.created = TRUE]
    /\ participants' = Insert(participants, HandlerObj)
    /\ hist' = [hist EXCEPT !.user = [@ EXCEPT ![ID(HandlerObj)] = HandlerObj],
                            !.kept = [@ EXCEPT ![ID(HandlerObj)] = HandlerObj]]
    /\ UNCHANGED <<chunkChan, stopChan, wg, writer, worker, stopper, crashed,
                   written, calls, lim, split, setter, starter, loop, closer, sess, stats>>

(***************************************************************************)
(* GeminiHandler.Start: Live.Connect on g.ctx (it fails once the context   *)
(* is cancelled), then g.session = session, g.wg.Add(1) and the spawn of   *)
(* receiveResponses.                                                       *)
(***************************************************************************)
HStartConnect(t) ==
    /\ Alive
    /\ handler.created
    /\ starter[t].pc = "idle"
    /\ \A u \in Starters : starter[u].pc = "idle" => t <= u
    /\ Cardinality({u \in Starters : starter[u].pc # "idle"}) < lim.hstarts
    /\ \E ok \in BOOLEAN :
         IF ok /\ ~handler.cancelled /\ sess.n < Cardinality(Sessions)
         THEN /\ sess' = [sess EXCEPT !.n = @ + 1]
              /\ starter' = [starter EXCEPT ![t] = [pc |-> "assign", session |-> sess.n + 1]]
         ELSE /\ ~ok
              /\ starter' = [starter EXCEPT ![t] = [pc |-> "failed", session |-> NilSession]]
              /\ UNCHANGED sess
    /\ UNCHANGED <<bridgeVars, handler, loop, closer, stats>>

\* a Start that reopens the handler when it stores the session
HStartAssignReopens(t) ==
    /\ Alive
    /\ starter[t].pc = "assign"
    /\ handler' = [handler EXCEPT !.session = starter[t].session,
                                  !.sessionClosed = FALSE]
    /\ starter' = [starter EXCEPT ![t].pc = "add"]
    /\ UNCHANGED <<bridgeVars, loop, closer, sess, stats>>

\* g.session = session: the store of the field, under no lock
HStartAssign(t) ==
    /\ Alive
    /\ starter[t].pc = "assign"
    /\ handler' = [handler EXCEPT !.session = starter[t].session]
    /\ starter' = [starter EXCEPT ![t].pc = "add"]
    /\ UNCHANGED <<bridgeVars, loop, closer, sess, stats>>

\* g.wg.Add(1), after the slog.Info that follows the store
HStartAdd(t) ==
    /\ Alive
    /\ starter[t].pc = "add"
    /\ \E o \in AddOutcomes(handler.wg, handler.waiters) :
         IF o = WaitMisuse
         THEN /\ crashed' = WaitMisuse
              /\ UNCHANGED <<handler, starter>>
         ELSE /\ handler' = [handler EXCEPT !.wg = @ + 1]
              /\ starter' = [starter EXCEPT ![t].pc = "spawn"]
              /\ UNCHANGED crashed
    /\ UNCHANGED <<participants, chunkChan, stopChan, wg, writer, worker,
                   stopper, written, calls, hist, lim, split, setter, loop,
                   closer, sess, stats>>

\* go g.receiveResponses(); return nil
HStartSpawn(t) ==
    /\ Alive
    /\ starter[t].pc = "spawn"
    /\ starter' = [starter EXCEPT ![t].pc = "done"]
    /\ loop' = [loop EXCEPT ![t].pc = "select"]
    /\ UNCHANGED <<bridgeVars, handler, closer, sess, stats>>

(***************************************************************************)
(* GeminiHandler.receiveResponses.                                         *)
(***************************************************************************)
\* the top of the loop: the stop channel, then sessionClosed and session
\* under sessionMu.RLock
LoopSelect(l) ==
    /\ Alive
    /\ loop[l].pc = "select"
    /\ IF handler.stopChan = "closed" \/ handler.sessionClosed
          \/ handler.session = NilSession
       THEN loop' = [loop EXCEPT ![l].pc = "return"]
       ELSE loop' = [loop EXCEPT ![l].pc = "recv", ![l].session = handler.session]
    /\ UNCHANGED <<bridgeVars, handler, starter, closer, sess, stats>>

\* what session.Receive() can do: a message, io.EOF, an error, a panic
Messages == [nil : {FALSE}, audio : BOOLEAN, interrupted : BOOLEAN]

ReceiveOutcomes(closed) ==
    IF closed THEN {"error"} ELSE {"message", "eof", "error", "panic"}

\* the guarded pull: the deferred recover() swallows a panic and the closure
\* then returns its results' zero values, a nil message and a nil error
LoopReceive(l) ==
    /\ Alive
    /\ loop[l].pc = "recv"
    /\ \E o \in ReceiveOutcomes(sess.closes[loop[l].session] > 0) :
         CASE o = "message" ->
                /\ stats.messages < lim.messages
                /\ \E m \in Messages :
                     loop' = [loop EXCEPT ![l].pc = "handle", ![l].message = m]
                /\ stats' = [stats EXCEPT !.messages = @ + 1]
           [] o = "panic" ->
                /\ loop' = [loop EXCEPT ![l].pc = "handle", ![l].message = NilMessage]
                /\ UNCHANGED stats
           [] OTHER ->
                /\ loop' = [loop EXCEPT ![l].pc = "mark", ![l].ended = TRUE]
                /\ UNCHANGED stats
    /\ UNCHANGED <<bridgeVars, handler, starter, closer, sess>>

\* after the pull: err == nil, so message.ServerContent is read (a nil
\* message makes that a nil pointer dereference, outside any recover); an
\* audio part is resampled and broadcast under the handler's own id
LoopHandle(l) ==
    /\ Alive
    /\ loop[l].pc = "handle"
    /\ IF loop[l].message.nil
       THEN /\ crashed' = "receiveResponses: nil pointer dereference"
            /\ UNCHANGED <<chunkChan, calls, loop, stats>>
       ELSE /\ IF loop[l].message.audio
               THEN /\ Len(calls) < lim.broadcasts
                    /\ \E d \in Payloads :
                         BroadcastChunk([Data |-> d, SenderID |-> ID(HandlerObj),
                                         seq |-> Len(calls) + 1])
               ELSE UNCHANGED <<chunkChan, calls>>
            /\ loop' = [loop EXCEPT
                 ![l].pc = IF loop[l].message.interrupted THEN "flush" ELSE "select"]
            /\ stats' = [stats EXCEPT
                 !.interrupted = IF loop[l].message.interrupted THEN @ + 1 ELSE @]
            /\ UNCHANGED crashed
    /\ UNCHANGED <<participants, stopChan, wg, writer, worker, stopper, written,
                   hist, lim, split, setter, handler, starter, closer, sess>>

\* the participants that implement QueueFlusher
Flushers == {"pA", "pA2"}

\* FlushQueues: the copy of the registry under m.mu.RLock
LoopFlushSnapshot(l) ==
    /\ Alive
    /\ loop[l].pc = "flush"
    /\ loop' = [loop EXCEPT ![l].pc = "flushing",
                            ![l].participantsSnapshot = participants,
                            ![l].mu = "none"]
    /\ UNCHANGED <<bridgeVars, handler, starter, closer, sess, stats>>

\* the participant objects a registry holds
Held(reg) == {reg[i] : i \in Present(reg)}

\* a FlushQueues that calls every participant of the snapshot
LoopFlushAll(l) ==
    /\ Alive
    /\ loop[l].pc = "flushing"
    /\ stats' = [stats EXCEPT
         !.flushCalls = @ + 1,
         !.flushed = [p \in Objs |->
              IF p \in Held(loop[l].participantsSnapshot) THEN @[p] + 1 ELSE @[p]]]
    /\ loop' = [loop EXCEPT ![l].pc = "select"]
    /\ UNCHANGED <<bridgeVars, handler, starter, closer, sess>>

\* FlushQueues: the loop over the snapshot, FlushQueue() on each participant
\* that implements QueueFlusher
LoopFlush(l) ==
    /\ Alive
    /\ loop[l].pc = "flushing"
    /\ stats' = [stats EXCEPT
         !.flushCalls = @ + 1,
         !.flushed = [p \in Objs |->
              IF p \in Flushers /\ p \in Held(loop[l].participantsSnapshot)
              THEN @[p] + 1 ELSE @[p]]]
    /\ loop' = [loop EXCEPT ![l].pc = "select"]
    /\ UNCHANGED <<bridgeVars, handler, starter, closer, sess>>

\* markSessionClosed
LoopMark(l) ==
    /\ Alive
    /\ loop[l].pc = "mark"
    /\ handler' = [handler EXCEPT !.sessionClosed = TRUE]
    /\ loop' = [loop EXCEPT ![l].pc = "unregister"]
    /\ UNCHANGED <<bridgeVars, starter, closer, sess, stats>>

\* what a removal of the handler's id does to the counters and the history
Unregistered(st, reg) ==
    [st EXCEPT !.removed = IF reg[ID(HandlerObj)] # None THEN @ + 1 ELSE @]

\* a receive loop that returns without removing the handler from the bridge
LoopRemoveSkipped(l) ==
    /\ Alive
    /\ loop[l].pc = "unregister"
    /\ loop' = [loop EXCEPT ![l].pc = "return"]
    /\ UNCHANGED <<bridgeVars, handler, starter, closer, sess, stats>>

\* removeFromBridge: RemoveParticipant, one critical section of m.mu
LoopRemove(l) ==
    /\ Alive
    /\ MuFree
    /\ loop[l].pc = "unregister"
    /\ participants' = RemoveEntry(participants, ID(HandlerObj))
    /\ stats' = Unregistered(stats, participants)
    /\ hist' = [hist EXCEPT !.user = [@ EXCEPT ![ID(HandlerObj)] = None],
                            !.kept = [@ EXCEPT ![ID(HandlerObj)] = None]]
    /\ loop' = [loop EXCEPT ![l].pc = "return"]
    /\ UNCHANGED <<chunkChan, stopChan, wg, writer, worker, stopper, crashed,
                   written, calls, lim, split, setter, handler, starter, closer,
                   sess>>

\* the return of receiveResponses: the deferred g.wg.Done()
LoopReturn(l) ==
    /\ Alive
    /\ loop[l].pc = "return"
    /\ loop' = [loop EXCEPT ![l].pc = "done"]
    /\ handler' = [handler EXCEPT !.wg = @ - 1,
                       !.waiters = Released(@, handler.wg - 1)]
    /\ UNCHANGED <<bridgeVars, starter, closer, sess, stats>>

(***************************************************************************)
(* GeminiAudioWriter.Write, called by the fan-out worker for the entry of  *)
(* the snapshot whose writer is the handler's.                             *)
(***************************************************************************)
\* a writer that looks at the connection handle only
RejectsNilOnly(session, closed) == session = NilSession

\* if session == nil || sessionClosed { return 0, io.ErrClosedPipe }
Rejects(session, closed) == session = NilSession \/ closed

\* a writer that sends the "Hello" turn with every chunk
HelloResultsAlways(first, mayFail) == {"sent"}

\* the "Hello" turn: sent (SendClientContent returns nil or an error) by the
\* call that finds firstDataReceived unset, not sent by any other call
HelloResults(first, mayFail) ==
    IF ~first THEN {"none"} ELSE IF mayFail THEN {"sent", "failed"} ELSE {"sent"}

\* one call of GeminiAudioWriter.Write as the log of the calls keeps it: the
\* chunk, whether the handler was closed or unconnected when the call read
\* the two fields, what became of the "Hello" turn, and what Write returned
WriteRecord(chunk, rejected, hello, ret) ==
    [seq |-> chunk.seq, data |-> chunk.Data, rejected |-> rejected,
     hello |-> hello, ret |-> ret]

\* the call of the log that has not returned yet for the chunk of seq n
PendingWrite(log, n) ==
    CHOOSE i \in 1..Len(log) : log[i].seq = n /\ log[i].ret = "pending"

\* sessionClosed and session read under sessionMu.RLock; a nil session or a
\* set flag returns io.ErrClosedPipe, empty data returns nil; else the call
\* goes on with the session it has read
GWriteCheck(w, id) ==
    /\ Alive
    /\ worker[w].pc = "iter"
    /\ id \in worker[w].todo
    /\ ~IsSender(id, worker[w].chunk)
    /\ writer[worker[w].participantsSnapshot[id]] = GeminiWriter
    /\ LET chunk == worker[w].chunk
           todo == worker[w].todo \ {id}
           remove == worker[w].participantsToRemove \cup {id}
           rejected == handler.session = NilSession \/ handler.sessionClosed
       IN /\ written' = Written(written, worker[w].participantsSnapshot[id], chunk)
          /\ IF Rejects(handler.session, handler.sessionClosed)
             THEN /\ worker' = [worker EXCEPT
                       ![w].todo = todo,
                       ![w].failed = @ \cup {id},
                       ![w].participantsToRemove = remove,
                       ![w].pc = AfterEntry(todo, remove)]
                  /\ stats' = [stats EXCEPT !.writes =
                       Append(@, WriteRecord(chunk, rejected, "none", ErrClosedPipe))]
                  /\ UNCHANGED handler
             ELSE IF chunk.Data = <<>>
             THEN /\ worker' = [worker EXCEPT
                       ![w].todo = todo,
                       ![w].pc = AfterEntry(todo, worker[w].participantsToRemove)]
                  /\ stats' = [stats EXCEPT !.writes =
                       Append(@, WriteRecord(chunk, rejected, "none", WriteOk))]
                  /\ UNCHANGED handler
             ELSE /\ worker' = [worker EXCEPT
                       ![w].todo = todo,
                       ![w].session = handler.session,
                       ![w].pc = "gfirst"]
                  /\ stats' = [stats EXCEPT !.writes =
                       Append(@, WriteRecord(chunk, rejected, "none", "pending"))]
    /\ UNCHANGED <<participants, chunkChan, stopChan, wg, writer, stopper,
                   crashed, calls, hist, lim, split, setter, handler, starter,
                   loop, closer, sess>>

\* under firstDataMu: the call that finds firstDataReceived unset sets it and
\* goes on to send the "Hello" turn; any other call goes on to the resampling
GWriteFirst(w) ==
    /\ Alive
    /\ worker[w].pc = "gfirst"
    /\ handler' = [handler EXCEPT !.firstDataReceived = TRUE]
    /\ worker' = [worker EXCEPT
         ![w].pc = IF HelloResults(~handler.firstDataReceived, lim.hello) = {"none"}
                   THEN "gsend" ELSE "ghello"]
    /\ UNCHANGED <<participants, chunkChan, stopChan, wg, writer, stopper,
                   crashed, written, calls, hist, lim, split, setter, starter,
                   loop, closer, sess, stats>>

\* session.SendClientContent on the session the call has read: an error on a
\* session that Close has closed since, nil or an error otherwise; the error
\* is logged and the call goes on
GWriteHello(w) ==
    /\ Alive
    /\ worker[w].pc = "ghello"
    /\ \E h \in (IF sess.closes[worker[w].session] > 0
                 THEN {"failed"} ELSE HelloResults(TRUE, lim.hello)) :
         stats' = [stats EXCEPT
              !.hello = @ + 1,
              !.writes[PendingWrite(stats.writes, worker[w].chunk.seq)].hello = h]
    /\ worker' = [worker EXCEPT ![w].pc = "gsend"]
    /\ UNCHANGED <<participants, chunkChan, stopChan, wg, writer, stopper,
                   crashed, written, calls, hist, lim, split, setter, handler,
                   starter, loop, closer, sess>>

\* the resampling, then w.handler.session.SendRealtimeInput: the field is
\* read again, without the lock; a nil pointer there panics in the worker.
\* An error of the send is returned as it is: it is not io.ErrClosedPipe
GWriteSend(w) ==
    /\ Alive
    /\ worker[w].pc = "gsend"
    /\ IF handler.session = NilSession
       THEN /\ crashed' = "Write: nil pointer dereference"
            /\ UNCHANGED <<worker, stats>>
       ELSE /\ \E r \in {WriteOk, ErrOther} :
                 /\ sess.closes[handler.session] > 0 => r = ErrOther
                 /\ stats' = [stats EXCEPT
                      !.sends = IF r = WriteOk THEN @ + 1 ELSE @,
                      !.writes[PendingWrite(stats.writes, worker[w].chunk.seq)].ret = r]
            /\ worker' = [worker EXCEPT
                 ![w].pc = AfterEntry(worker[w].todo, worker[w].participantsToRemove)]
            /\ UNCHANGED crashed
    /\ UNCHANGED <<participants, chunkChan, stopChan, wg, writer, stopper,
                   written, calls, hist, lim, split, setter, handler, starter, loop, closer, sess>>

(***************************************************************************)
(* GeminiHandler.Close.                                                    *)
(***************************************************************************)
\* a Close that does not set the closed flag before it signals the loop
CloseMarkLate(k) ==
    /\ Alive
    /\ handler.created
    /\ closer[k].pc = "idle"
    /\ \A j \in Closers : closer[j].pc = "idle" => k <= j
    /\ Cardinality({j \in Closers : closer[j].pc # "idle"}) < lim.closes
    /\ lim.sequential => \A j \in Closers : closer[j].pc \in {"idle", "done"}
    /\ closer' = [closer EXCEPT ![k].pc = "select"]
    /\ UNCHANGED <<bridgeVars, handler, starter, loop, sess, stats>>

\* g.markSessionClosed()
CloseMark(k) ==
    /\ Alive
    /\ handler.created
    /\ closer[k].pc = "idle"
    /\ \A j \in Closers : closer[j].pc = "idle" => k <= j
    /\ Cardinality({j \in Closers : closer[j].pc # "idle"}) < lim.closes
    /\ lim.sequential => \A j \in Closers : closer[j].pc \in {"idle", "done"}
    /\ handler' = [handler EXCEPT !.sessionClosed = TRUE]
    /\ closer' = [closer EXCEPT ![k].pc = "select"]
    /\ UNCHANGED <<bridgeVars, starter, loop, sess, stats>>

\* a Close that closes the stop channel without testing it
CloseSelectAlways(k) ==
    /\ Alive
    /\ closer[k].pc = "select"
    /\ closer' = [closer EXCEPT ![k].pc = "close"]
    /\ UNCHANGED <<bridgeVars, handler, starter, loop, sess, stats>>

\* select { case <-g.stopChan: default: ... }: the test of the stop channel;
\* when the channel is closed already, the spawn of the goroutine that waits
\* for g.wg follows
CloseSelect(k) ==
    /\ Alive
    /\ closer[k].pc = "select"
    /\ closer' = [closer EXCEPT
         ![k].pc = IF handler.stopChan = "closed" THEN "wait" ELSE "close"]
    /\ handler' = IF handler.stopChan = "closed"
                  THEN [handler EXCEPT !.waiters[k] = "spawned"]
                  ELSE handler
    /\ UNCHANGED <<bridgeVars, starter, loop, sess, stats>>

\* the default case: close(g.stopChan), a panic on a closed channel; then
\* the spawn of the goroutine that waits for g.wg
CloseChan(k) ==
    /\ Alive
    /\ closer[k].pc = "close"
    /\ IF handler.stopChan = "closed"
       THEN /\ crashed' = "Close: close of closed channel"
            /\ UNCHANGED <<handler, closer, stats>>
       ELSE /\ handler' = [handler EXCEPT !.stopChan = "closed",
                                          !.waiters[k] = "spawned"]
            /\ closer' = [closer EXCEPT ![k].pc = "wait"]
            /\ stats' = [stats EXCEPT !.stopSignals = @ + 1]
            /\ UNCHANGED crashed
    /\ UNCHANGED <<participants, chunkChan, stopChan, wg, writer, worker,
                   stopper, written, calls, hist, lim, split, setter, starter, loop, sess>>

\* go func() { g.wg.Wait(); close(done) }(): the call of Wait, which returns
\* at once when the counter is 0 and blocks otherwise
WaiterWait(k) ==
    /\ Alive
    /\ handler.waiters[k] = "spawned"
    /\ handler' = [handler EXCEPT
         !.waiters[k] = IF handler.wg = 0 THEN "returned" ELSE "blocked"]
    /\ UNCHANGED <<bridgeVars, starter, loop, closer, sess, stats>>

\* g.wg.Wait(), released by the last Done: it reads the state again and
\* panics when an Add has raised the counter since; else close(done)
WaiterWake(k) ==
    /\ Alive
    /\ handler.waiters[k] = "released"
    /\ IF handler.wg # 0
       THEN /\ crashed' = WaitReused
            /\ UNCHANGED handler
       ELSE /\ handler' = [handler EXCEPT !.waiters[k] = "returned"]
            /\ UNCHANGED crashed
    /\ UNCHANGED <<participants, chunkChan, stopChan, wg, writer, worker,
                   stopper, written, calls, hist, lim, split, setter, starter,
                   loop, closer, sess, stats>>

\* a Close that waits for g.wg without a timeout
CloseWaitForever(k) ==
    /\ Alive
    /\ closer[k].pc = "wait"
    /\ handler.waiters[k] = "returned"
    /\ closer' = [closer EXCEPT ![k].pc = "swap", ![k].timedOut = FALSE]
    /\ UNCHANGED <<bridgeVars, handler, starter, loop, sess, stats>>

\* select { case <-done: case <-time.After(5 * time.Second): }: done is
\* closed once the waiting goroutine has returned from Wait; until then the
\* only case that can run is the timeout
CloseWait(k) ==
    /\ Alive
    /\ closer[k].pc = "wait"
    /\ closer' = [closer EXCEPT ![k].pc = "swap",
                                ![k].timedOut = handler.waiters[k] # "returned"]
    /\ UNCHANGED <<bridgeVars, handler, starter, loop, sess, stats>>

\* under sessionMu.Lock: session := g.session; g.session = nil
CloseSwap(k) ==
    /\ Alive
    /\ closer[k].pc = "swap"
    /\ closer' = [closer EXCEPT ![k].pc = "release", ![k].session = handler.session]
    /\ handler' = [handler EXCEPT !.session = NilSession]
    /\ UNCHANGED <<bridgeVars, starter, loop, sess, stats>>

\* if session != nil { session.Close() }
CloseRelease(k) ==
    /\ Alive
    /\ closer[k].pc = "release"
    /\ sess' = IF closer[k].session # NilSession
               THEN [sess EXCEPT !.closes[closer[k].session] = @ + 1]
               ELSE sess
    /\ closer' = [closer EXCEPT ![k].pc = "cancel"]
    /\ UNCHANGED <<bridgeVars, handler, starter, loop, stats>>

\* g.cancel()
CloseCancel(k) ==
    /\ Alive
    /\ closer[k].pc = "cancel"
    /\ handler' = [handler EXCEPT !.cancelled = TRUE]
    /\ closer' = [closer EXCEPT ![k].pc = "remove"]
    /\ UNCHANGED <<bridgeVars, starter, loop, sess, stats>>

\* g.mediaBridge.RemoveParticipant(g.participantID)
CloseRemove(k) ==
    /\ Alive
    /\ MuFree
    /\ closer[k].pc = "remove"
    /\ participants' = RemoveEntry(participants, ID(HandlerObj))
    /\ stats' = Unregistered(stats, participants)
    /\ hist' = [hist EXCEPT !.user = [@ EXCEPT ![ID(HandlerObj)] = None],
                            !.kept = [@ EXCEPT ![ID(HandlerObj)] = None]]
    /\ closer' = [closer EXCEPT ![k].pc = "done"]
    /\ UNCHANGED <<chunkChan, stopChan, wg, writer, worker, stopper, crashed,
                   written, calls, lim, split, setter, handler, starter, loop, sess>>

(***************************************************************************)
(* Initial state: NewMediaBridge, and the participant objects as           *)
(* NewParticipant built them (with a writer, or with none yet).            *)
(***************************************************************************)
\* no call of splitIntoChunks and none of SetWriter has been made
NoSplit ==
    [pc |-> "idle", audioData |-> <<>>, sampleRate |-> 0, chunkDurationMs |-> 0,
     offset |-> 0, chunks |-> <<>>]

NoSetter == [pc |-> "idle", p |-> None, writer |-> NilWriter, raced |-> FALSE]

InitIdle == split = NoSplit /\ setter = NoSetter

InitWorker ==
    [pc |-> "off", chunk |-> NoChunk,
     participantsSnapshot |-> [i \in IDs |-> None],
     todo |-> {}, participantsToRemove |-> {},
     noWriter |-> {}, failed |-> {}, errored |-> {}, late |-> FALSE,
     mu |-> "none", afterStop |-> FALSE, session |-> NilSession]

InitWriters ==
    {f \in [Objs -> {NilWriter, SinkWriter, GeminiWriter}] :
        /\ f[HandlerObj] = GeminiWriter
        /\ \A p \in BaseObjs : f[p] # GeminiWriter
        /\ f["pA2"] = SinkWriter /\ (f["pA"] = SinkWriter \/ f["pB"] = SinkWriter)}

InitBridge ==
    /\ participants = [i \in IDs |-> None]
    /\ chunkChan = <<>>
    /\ stopChan = "open"
    /\ wg = 0
    /\ writer \in InitWriters
    /\ worker = [w \in Workers |-> InitWorker]
    /\ stopper = [s \in Stoppers |-> "idle"]
    /\ crashed = "none"
    /\ written = [p \in Objs |-> <<>>]
    /\ calls = <<>>
    /\ hist = [cleared |-> FALSE,
               user |-> [i \in IDs |-> None], kept |-> [i \in IDs |-> None]]

InitHandlerVars ==
    /\ handler = [created |-> FALSE, session |-> NilSession,
                  sessionClosed |-> FALSE, stopChan |-> "open", wg |-> 0,
                  cancelled |-> FALSE, firstDataReceived |-> FALSE,
                  waiters |-> [k \in Closers |-> "none"]]
    /\ starter = [t \in Starters |-> [pc |-> "idle", session |-> NilSession]]
    /\ loop = [l \in Starters |->
                 [pc |-> "off", session |-> NilSession, message |-> NilMessage,
                  ended |-> FALSE,
                  participantsSnapshot |-> [i \in IDs |-> None], mu |-> "none"]]
    /\ closer = [k \in Closers |->
                   [pc |-> "idle", session |-> NilSession, timedOut |-> FALSE]]
    /\ sess = [n |-> 0, closes |-> [x \in Sessions |-> 0]]
    /\ stats = [hello |-> 0, sends |-> 0, messages |-> 0,
                stopSignals |-> 0, removed |-> 0, interrupted |-> 0,
                flushCalls |-> 0, flushed |-> [p \in Objs |-> 0],
                writes |-> <<>>]

BridgeLimits ==
    [broadcasts |-> MaxBroadcasts, starts |-> 1, stops |-> 1, hstarts |-> 0,
     closes |-> 0, messages |-> 0, sequential |-> FALSE, failures |-> TRUE,
     hello |-> FALSE, trace |-> FALSE]

BridgeNext ==
    \/ \E p \in BaseObjs : AddParticipant(p)
    \/ \E id \in {"A", "B"} : RemoveParticipant(id)
    \/ \E d \in Payloads : Broadcast("G", d)
    \/ \E w \in Workers : Start(w)
    \/ \E w \in Workers : WorkerSelect(w)
    \/ \E w \in Workers : WorkerSnapshot(w)
    \/ \E w \in Workers, id \in IDs : WorkerIter(w, id)
    \/ \E w \in Workers : WorkerRemove(w)
    \/ \E s \in Stoppers : StopClose(s)
    \/ \E s \in Stoppers : StopWait(s)
    \/ \E s \in Stoppers : StopWake(s)
    \/ \E s \in Stoppers : StopClear(s)
    \/ \E s \in Stoppers : StopReturn(s)

BridgeInit == InitBridge /\ InitHandlerVars /\ lim = BridgeLimits /\ InitIdle

SpecBridge == BridgeInit /\ [][BridgeNext]_vars

(***************************************************************************)
(* One call: the telephony participant pA is registered and the bridge     *)
(* started; then the handler is created, started and closed while the      *)
(* telephony side broadcasts.                                              *)
(***************************************************************************)
InitCall ==
    /\ participants = Insert([i \in IDs |-> None], "pA")
    /\ chunkChan = <<>>
    /\ stopChan = "open"
    /\ wg = 1
    /\ writer \in {f \in InitWriters : f["pB"] = SinkWriter}
    /\ worker = [w \in Workers |->
                   IF w = 1 THEN [InitWorker EXCEPT !.pc = "select"] ELSE InitWorker]
    /\ stopper = [s \in Stoppers |-> "idle"]
    /\ crashed = "none"
    /\ written = [p \in Objs |-> <<>>]
    /\ calls = <<>>
    /\ hist = [cleared |-> FALSE,
               user |-> Insert([i \in IDs |-> None], "pA"),
               kept |-> Insert([i \in IDs |-> None], "pA")]
    /\ InitHandlerVars

CallLimits ==
    [broadcasts |-> MaxBroadcasts, starts |-> 1, stops |-> 0, hstarts |-> 1,
     closes |-> 1, messages |-> 1, sequential |-> TRUE, failures |-> TRUE,
     hello |-> FALSE, trace |-> FALSE]

HandlerNext ==
    \/ NewGeminiHandler
    \/ \E t \in Starters : HStartConnect(t)
    \/ \E t \in Starters : HStartAssign(t)
    \/ \E t \in Starters : HStartAdd(t)
    \/ \E t \in Starters : HStartSpawn(t)
    \/ \E l \in Starters : LoopSelect(l)
    \/ \E l \in Starters : LoopReceive(l)
    \/ \E l \in Starters : LoopHandle(l)
    \/ \E l \in Starters : LoopFlushSnapshot(l)
    \/ \E l \in Starters : LoopFlush(l)
    \/ \E l \in Starters : LoopMark(l)
    \/ \E l \in Starters : LoopRemove(l)
    \/ \E l \in Starters : LoopReturn(l)
    \/ \E w \in Workers, id \in IDs : GWriteCheck(w, id)
    \/ \E w \in Workers : GWriteFirst(w)
    \/ \E w \in Workers : GWriteHello(w)
    \/ \E w \in Workers : GWriteSend(w)
    \/ \E k \in Closers : CloseMark(k)
    \/ \E k \in Closers : CloseSelect(k)
    \/ \E k \in Closers : CloseChan(k)
    \/ \E k \in Closers : WaiterWait(k)
    \/ \E k \in Closers : WaiterWake(k)
    \/ \E k \in Closers : CloseWait(k)
    \/ \E k \in Closers : CloseSwap(k)
    \/ \E k \in Closers : CloseRelease(k)
    \/ \E k \in Closers : CloseCancel(k)
    \/ \E k \in Closers : CloseRemove(k)

CallNext ==
    \/ \E d \in Payloads : Broadcast("A", d)
    \/ \E w \in Workers : WorkerSelect(w)
    \/ \E w \in Workers : WorkerSnapshot(w)
    \/ \E w \in Workers, id \in IDs : WorkerIter(w, id)
    \/ \E w \in Workers : WorkerRemove(w)
    \/ HandlerNext

Init == InitCall /\ lim = CallLimits /\ InitIdle

Spec == Init /\ [][CallNext]_vars

(***************************************************************************)
(* The same call with the backend's messages as the growing side: up to    *)
(* MaxMessages messages, each with or without audio and with or without    *)
(* the interrupted mark, around two chunks.                                *)
(***************************************************************************)
InterruptLimits ==
    [broadcasts |-> 2, starts |-> 1, stops |-> 0, hstarts |-> 1,
     closes |-> 1, messages |-> MaxMessages, sequential |-> TRUE, failures |-> TRUE,
     hello |-> FALSE, trace |-> FALSE]

InterruptInit == InitCall /\ lim = InterruptLimits /\ InitIdle

SpecInterrupt == InterruptInit /\ [][CallNext]_vars

(***************************************************************************)
(* The bridge's life cycle: Start and Stop called up to twice each, from   *)
(* any goroutines, around the broadcasts to one participant.               *)
(***************************************************************************)
LifecycleLimits ==
    [broadcasts |-> MaxBroadcasts, starts |-> 2, stops |-> 2, hstarts |-> 0,
     closes |-> 0, messages |-> 0, sequential |-> FALSE, failures |-> TRUE,
     hello |-> FALSE, trace |-> FALSE]

LifecycleNext ==
    \/ AddParticipant("pB")
    \/ \E d \in Payloads : Broadcast("A", d)
    \/ \E w \in Workers : Start(w)
    \/ \E w \in Workers : WorkerSelect(w)
    \/ \E w \in Workers : WorkerSnapshot(w)
    \/ \E w \in Workers, id \in IDs : WorkerIter(w, id)
    \/ \E w \in Workers : WorkerRemove(w)
    \/ \E s \in Stoppers : StopClose(s)
    \/ \E s \in Stoppers : StopWait(s)
    \/ \E s \in Stoppers : StopWake(s)
    \/ \E s \in Stoppers : StopClear(s)
    \/ \E s \in Stoppers : StopReturn(s)

LifecycleInit == InitBridge /\ InitHandlerVars /\ lim = LifecycleLimits /\ InitIdle

SpecLifecycle == LifecycleInit /\ [][LifecycleNext]_vars

(***************************************************************************)
(* Close called from two goroutines at once, on a handler that may be      *)
(* connected and whose receive loop may be running.                        *)
(***************************************************************************)
CloseLimits ==
    [broadcasts |-> 0, starts |-> 1, stops |-> 0, hstarts |-> 1,
     closes |-> 2, messages |-> 0, sequential |-> FALSE, failures |-> TRUE,
     hello |-> FALSE, trace |-> FALSE]

CloseNext ==
    \/ NewGeminiHandler
    \/ \E t \in Starters : HStartConnect(t)
    \/ \E t \in Starters : HStartAssign(t)
    \/ \E t \in Starters : HStartAdd(t)
    \/ \E t \in Starters : HStartSpawn(t)
    \/ \E l \in Starters : LoopSelect(l)
    \/ \E l \in Starters : LoopReceive(l)
    \/ \E l \in Starters : LoopHandle(l)
    \/ \E l \in Starters : LoopMark(l)
    \/ \E l \in Starters : LoopRemove(l)
    \/ \E l \in Starters : LoopReturn(l)
    \/ \E k \in Closers : CloseMark(k)
    \/ \E k \in Closers : CloseSelect(k)
    \/ \E k \in Closers : CloseChan(k)
    \/ \E k \in Closers : WaiterWait(k)
    \/ \E k \in Closers : WaiterWake(k)
    \/ \E k \in Closers : CloseWait(k)
    \/ \E k \in Closers : CloseSwap(k)
    \/ \E k \in Closers : CloseRelease(k)
    \/ \E k \in Closers : CloseCancel(k)
    \/ \E k \in Closers : CloseRemove(k)

CloseInit == InitCall /\ lim = CloseLimits /\ InitIdle

SpecClose == CloseInit /\ [][CloseNext]_vars

(***************************************************************************)
(* The queue under congestion: the telephony side broadcasts up to the     *)
(* capacity of chunkChan and beyond, to a bridge that holds participant pB *)
(* and is started at some point.                                           *)
(***************************************************************************)
InitFull ==
    /\ participants = Insert([i \in IDs |-> None], "pB")
    /\ chunkChan = <<>>
    /\ stopChan = "open"
    /\ wg = 0
    /\ writer \in {f \in InitWriters : f["pA"] = SinkWriter /\ f["pB"] = SinkWriter}
    /\ worker = [w \in Workers |-> InitWorker]
    /\ stopper = [s \in Stoppers |-> "idle"]
    /\ crashed = "none"
    /\ written = [p \in Objs |-> <<>>]
    /\ calls = <<>>
    /\ hist = [cleared |-> FALSE,
               user |-> Insert([i \in IDs |-> None], "pB"),
               kept |-> Insert([i \in IDs |-> None], "pB")]
    /\ InitHandlerVars

FullLimits ==
    [broadcasts |-> QueueCap + MaxOverflow, starts |-> 1, stops |-> 0,
     hstarts |-> 0, closes |-> 0, messages |-> 0, sequential |-> FALSE,
     failures |-> FALSE, hello |-> FALSE, trace |-> FALSE]

FullNext ==
    \/ \E d \in Payloads : Broadcast("A", d)
    \/ \E w \in Workers : Start(w)
    \/ \E w \in Workers : WorkerSelect(w)
    \/ \E w \in Workers : WorkerSnapshot(w)
    \/ \E w \in Workers, id \in IDs : WorkerIter(w, id)

FullInit == InitFull /\ lim = FullLimits /\ InitIdle

SpecFull == FullInit /\ [][FullNext]_vars

(***************************************************************************)
(* Close called once or twice, one call after the other, with progress:    *)
(* a goroutine that is in Close takes its next step, each of which is      *)
(* a non-blocking statement or the bounded wait. Nothing is assumed of the *)
(* receive loop, which may stay in its pull for ever.                      *)
(***************************************************************************)
CloseLiveLimits ==
    [broadcasts |-> 0, starts |-> 1, stops |-> 0, hstarts |-> 1,
     closes |-> 2, messages |-> 0, sequential |-> TRUE, failures |-> TRUE,
     hello |-> FALSE, trace |-> FALSE]

CloseLiveInit == InitCall /\ lim = CloseLiveLimits /\ InitIdle

CloseProgress ==
    \A k \in Closers :
        /\ WF_vars(CloseSelect(k))
        /\ WF_vars(CloseChan(k))
        /\ WF_vars(CloseWait(k))
        /\ WF_vars(CloseSwap(k))
        /\ WF_vars(CloseRelease(k))
        /\ WF_vars(CloseCancel(k))
        /\ WF_vars(CloseRemove(k))

SpecCloseLive == CloseLiveInit /\ [][CloseNext]_vars /\ CloseProgress

(***************************************************************************)
(* The handler's life cycle: Start called up to twice, from any goroutine  *)
(* and at any time, around one Close and the ends of the backend's stream. *)
(***************************************************************************)
RestartLimits ==
    [broadcasts |-> 0, starts |-> 1, stops |-> 0, hstarts |-> 2,
     closes |-> 1, messages |-> 0, sequential |-> TRUE, failures |-> TRUE,
     hello |-> FALSE, trace |-> FALSE]

RestartInit == InitCall /\ lim = RestartLimits /\ InitIdle

SpecRestart == RestartInit /\ [][CloseNext]_vars

(***************************************************************************)
(* The fan-out under write failures: participants pA and pB are registered *)
(* and the worker runs; chunks are broadcast under the ids A and G while   *)
(* participants are added and removed, and the worker records the writes   *)
(* that returned an error other than io.ErrClosedPipe.                     *)
(***************************************************************************)
InitFanout ==
    /\ participants = Insert(Insert([i \in IDs |-> None], "pA"), "pB")
    /\ chunkChan = <<>>
    /\ stopChan = "open"
    /\ wg = 1
    /\ writer \in InitWriters
    /\ worker = [w \in Workers |->
                   IF w = 1 THEN [InitWorker EXCEPT !.pc = "select"] ELSE InitWorker]
    /\ stopper = [s \in Stoppers |-> "idle"]
    /\ crashed = "none"
    /\ written = [p \in Objs |-> <<>>]
    /\ calls = <<>>
    /\ hist = [cleared |-> FALSE,
               user |-> Insert(Insert([i \in IDs |-> None], "pA"), "pB"),
               kept |-> Insert(Insert([i \in IDs |-> None], "pA"), "pB")]
    /\ InitHandlerVars

FanoutLimits ==
    [broadcasts |-> MaxBroadcasts, starts |-> 1, stops |-> 0, hstarts |-> 0,
     closes |-> 0, messages |-> 0, sequential |-> FALSE, failures |-> TRUE,
     hello |-> FALSE, trace |-> TRUE]

FanoutNext ==
    \/ \E p \in BaseObjs : AddParticipant(p)
    \/ \E id \in {"A", "B"} : RemoveParticipant(id)
    \/ \E s \in {"A", "G"}, d \in Payloads : Broadcast(s, d)
    \/ \E w \in Workers : WorkerSelect(w)
    \/ \E w \in Workers : WorkerSnapshot(w)
    \/ \E w \in Workers, id \in IDs : WorkerIter(w, id)
    \/ \E w \in Workers : WorkerRemove(w)

FanoutInit == InitFanout /\ lim = FanoutLimits /\ InitIdle

SpecFanout == FanoutInit /\ [][FanoutNext]_vars

(***************************************************************************)
(* The handler's writer: the telephony side broadcasts chunks, empty ones   *)
(* included, while the handler is created, started, ended by the backend   *)
(* or closed once; the "Hello" turn may fail.                              *)
(***************************************************************************)
WriterPayloads == Payloads \cup {<<>>}

WriterLimits ==
    [broadcasts |-> MaxBroadcasts, starts |-> 1, stops |-> 0, hstarts |-> 1,
     closes |-> 1, messages |-> 0, sequential |-> TRUE, failures |-> FALSE,
     hello |-> TRUE, trace |-> FALSE]

WriterNext ==
    \/ \E d \in WriterPayloads : Broadcast("A", d)
    \/ \E w \in Workers : WorkerSelect(w)
    \/ \E w \in Workers : WorkerSnapshot(w)
    \/ \E w \in Workers, id \in IDs : WorkerIter(w, id)
    \/ \E w \in Workers : WorkerRemove(w)
    \/ NewGeminiHandler
    \/ \E t \in Starters : HStartConnect(t)
    \/ \E t \in Starters : HStartAssign(t)
    \/ \E t \in Starters : HStartAdd(t)
    \/ \E t \in Starters : HStartSpawn(t)
    \/ \E l \in Starters : LoopSelect(l)
    \/ \E l \in Starters : LoopReceive(l)
    \/ \E l \in Starters : LoopHandle(l)
    \/ \E l \in Starters : LoopMark(l)
    \/ \E l \in Starters : LoopRemove(l)
    \/ \E l \in Starters : LoopReturn(l)
    \/ \E w \in Workers, id \in IDs : GWriteCheck(w, id)
    \/ \E w \in Workers : GWriteFirst(w)
    \/ \E w \in Workers : GWriteHello(w)
    \/ \E w \in Workers : GWriteSend(w)
    \/ \E k \in Closers : CloseMark(k)
    \/ \E k \in Closers : CloseSelect(k)
    \/ \E k \in Closers : CloseChan(k)
    \/ \E k \in Closers : WaiterWait(k)
    \/ \E k \in Closers : WaiterWake(k)
    \/ \E k \in Closers : CloseWait(k)
    \/ \E k \in Closers : CloseSwap(k)
    \/ \E k \in Closers : CloseRelease(k)
    \/ \E k \in Closers : CloseCancel(k)
    \/ \E k \in Closers : CloseRemove(k)

WriterInit == InitCall /\ lim = WriterLimits /\ InitIdle

SpecWriter == WriterInit /\ [][WriterNext]_vars

(***************************************************************************)
(* The registry under concurrent use: participants are added and removed   *)
(* while the worker fans chunks out to the handler and the receive loop    *)
(* flushes the queues.                                                     *)
(***************************************************************************)
LockLimits ==
    [broadcasts |-> MaxBroadcasts, starts |-> 1, stops |-> 0, hstarts |-> 1,
     closes |-> 0, messages |-> MaxMessages, sequential |-> TRUE,
     failures |-> FALSE, hello |-> FALSE, trace |-> FALSE]

LockNext ==
    \/ AddParticipant("pB")
    \/ RemoveParticipant("B")
    \/ \E d \in Payloads : Broadcast("A", d)
    \/ \E w \in Workers : WorkerSelect(w)
    \/ \E w \in Workers : WorkerSnapshot(w)
    \/ \E w \in Workers, id \in IDs : WorkerIter(w, id)
    \/ \E w \in Workers : WorkerRemove(w)
    \/ NewGeminiHandler
    \/ \E t \in Starters : HStartConnect(t)
    \/ \E t \in Starters : HStartAssign(t)
    \/ \E t \in Starters : HStartAdd(t)
    \/ \E t \in Starters : HStartSpawn(t)
    \/ \E l \in Starters : LoopSelect(l)
    \/ \E l \in Starters : LoopReceive(l)
    \/ \E l \in Starters : LoopHandle(l)
    \/ \E l \in Starters : LoopFlushSnapshot(l)
    \/ \E l \in Starters : LoopFlush(l)
    \/ \E l \in Starters : LoopMark(l)
    \/ \E l \in Starters : LoopRemove(l)
    \/ \E l \in Starters : LoopReturn(l)
    \/ \E w \in Workers, id \in IDs : GWriteCheck(w, id)
    \/ \E w \in Workers : GWriteFirst(w)
    \/ \E w \in Workers : GWriteHello(w)
    \/ \E w \in Workers : GWriteSend(w)

LockInit ==
    InitCall /\ writer["pA"] = SinkWriter /\ lim = LockLimits /\ InitIdle

SpecLock == LockInit /\ [][LockNext]_vars

(***************************************************************************)
(* Rebinding a sink during the fan-out: participants pA and pB are         *)
(* registered and the worker runs; chunks are broadcast under the ids A    *)
(* and G while the writer of pA is set once, to nil or to a sink whose     *)
(* writes succeed.                                                         *)
(***************************************************************************)
RebindLimits ==
    [broadcasts |-> MaxBroadcasts, starts |-> 1, stops |-> 0, hstarts |-> 0,
     closes |-> 0, messages |-> 0, sequential |-> FALSE, failures |-> FALSE,
     hello |-> FALSE, trace |-> FALSE]

RebindNext ==
    \/ \E s \in {"A", "G"}, d \in Payloads : Broadcast(s, d)
    \/ \E w \in Workers : WorkerSelect(w)
    \/ \E w \in Workers : WorkerSnapshot(w)
    \/ \E w \in Workers, id \in IDs : WorkerIter(w, id)
    \/ \E w \in Workers, id \in IDs : WorkerIterRacy(w, id)
    \/ \E wr \in {NilWriter, SinkWriter} : SetWriterBegin("pA", wr)
    \/ SetWriterEnd

RebindInit == InitFanout /\ lim = RebindLimits /\ InitIdle

SpecRebind == RebindInit /\ [][RebindNext]_vars

(***************************************************************************)
(* Stop and what follows it: participant pB is added, chunks are broadcast *)
(* under the id A, and the bridge is started once and stopped once, in any *)
(* order and with any overlap; the worker records whether it was spawned   *)
(* after Stop had returned.                                                *)
(***************************************************************************)
StopLimits ==
    [broadcasts |-> MaxBroadcasts, starts |-> 1, stops |-> 1, hstarts |-> 0,
     closes |-> 0, messages |-> 0, sequential |-> FALSE, failures |-> TRUE,
     hello |-> FALSE, trace |-> TRUE]

StopNext ==
    \/ AddParticipant("pB")
    \/ \E d \in Payloads : Broadcast("A", d)
    \/ \E w \in Workers : Start(w)
    \/ \E w \in Workers : WorkerSelect(w)
    \/ \E w \in Workers : WorkerSnapshot(w)
    \/ \E w \in Workers, id \in IDs : WorkerIter(w, id)
    \/ \E w \in Workers : WorkerRemove(w)
    \/ \E s \in Stoppers : StopClose(s)
    \/ \E s \in Stoppers : StopWait(s)
    \/ \E s \in Stoppers : StopWake(s)
    \/ \E s \in Stoppers : StopClear(s)
    \/ \E s \in Stoppers : StopReturn(s)

StopInit == InitBridge /\ InitHandlerVars /\ lim = StopLimits /\ InitIdle

SpecStop == StopInit /\ [][StopNext]_vars

(***************************************************************************)
(* splitIntoChunks (unnamed/part_002), one iteration of its loop per step. *)
(* Go's integer division truncates towards zero.                           *)
(***************************************************************************)
TruncDiv(a, b) == IF a >= 0 THEN a \div b ELSE -((-a) \div b)

\* bytesPerChunk := (sampleRate * 2 * chunkDurationMs) / 1000
BytesPerChunk(sampleRate, chunkDurationMs) ==
    TruncDiv(sampleRate * 2 * chunkDurationMs, 1000)

\* offset += bytesPerChunk
NextOffset(offset, bytesPerChunk) == offset + bytesPerChunk

\* end := offset + bytesPerChunk; if end > len(audioData) { end = len(audioData) }
ChunkEnd(offset, bytesPerChunk, n) ==
    IF offset + bytesPerChunk > n THEN n ELSE offset + bytesPerChunk

\* the slices the model keeps of a loop that does not end: as many as a
\* buffer of MaxLen bytes can give, and two more
MaxChunks == MaxLen + 2

\* the arguments of the calls: buffers of up to MaxLen bytes, sample rates
\* and durations whose product gives chunk sizes below, at and above 1
SampleBytes == {7, 9}
Buffers == UNION {[1..n -> SampleBytes] : n \in 0..MaxLen}
SampleRates == {-500, 100, 250, 500, 1000}
Durations == {1, 3}

SplitCalls ==
    [pc : {"loop"}, audioData : Buffers, sampleRate : SampleRates,
     chunkDurationMs : Durations, offset : {0}, chunks : {<<>>}]

\* for offset := 0; offset < len(audioData); offset += bytesPerChunk { ... }:
\* the test of the condition and, when it holds, one run of the body;
\* make([]byte, end-offset) panics on a negative length
SplitStep ==
    /\ split.pc = "loop"
    /\ LET n == Len(split.audioData)
           bytesPerChunk == BytesPerChunk(split.sampleRate, split.chunkDurationMs)
           offset == split.offset
           end == ChunkEnd(offset, bytesPerChunk, n)
       IN IF ~(offset < n)
          THEN split' = [split EXCEPT !.pc = "done"]
          ELSE IF end - offset < 0
          THEN split' = [split EXCEPT !.pc = "panic"]
          ELSE split' = [split EXCEPT
                  !.chunks = IF Len(@) < MaxChunks
                             THEN Append(@, SubSeq(split.audioData, offset + 1, end))
                             ELSE @,
                  !.offset = NextOffset(offset, bytesPerChunk)]
    /\ UNCHANGED <<participants, chunkChan, stopChan, wg, writer, worker, stopper,
                   crashed, written, calls, hist, lim, setter, handlerVars>>

SplitInit == InitFull /\ lim = FullLimits /\ setter = NoSetter /\ split \in SplitCalls

SplitNext == SplitStep

SpecSplit == SplitInit /\ [][SplitNext]_vars

\* the same calls, with progress: the goroutine in splitIntoChunks runs
SpecSplitLive == SplitInit /\ [][SplitNext]_vars /\ WF_vars(SplitStep)

(***************************************************************************)
(* Properties.                                                             *)
(***************************************************************************)
\* the writer of participant object p received a Write of the chunk's bytes
WrittenTo(p, chunk) ==
    \E i \in 1..Len(written[p]) : written[p][i] = <<chunk.seq, chunk.Data>>

\* worker w has run broadcastChunk to its end for worker[w].chunk
FanoutDone(w) ==
    worker[w].pc \in {"select", "remove", "done"} /\ worker[w].chunk # NoChunk

\* no writer ever received a chunk that was broadcast under its participant's id
NoEcho ==
    \A p \in Objs : \A i \in 1..Len(written[p]) :
        calls[written[p][i][1]].sender # ID(p)

\* C1 as stated: a chunk is never written to the participant whose id is the
\* chunk's senderId, and once its fan-out is over every other participant of
\* the snapshot has been written to.
C1_EveryOtherWritten ==
    /\ NoEcho
    /\ \A w \in Workers : FanoutDone(w) =>
         \A id \in Present(worker[w].participantsSnapshot) :
            id # worker[w].chunk.SenderID
               => WrittenTo(worker[w].participantsSnapshot[id], worker[w].chunk)

\* C1 amended: a chunk is never written to the participant whose id is the
\* chunk's senderId (the handler's own broadcasts included), and once its
\* fan-out is over every other participant of the snapshot that has a writer
\* (Writer() != nil) has been written the chunk's bytes.
C1_NoEchoOthersWithWriter ==
    /\ NoEcho
    /\ \A w \in Workers : FanoutDone(w) =>
         \A id \in Present(worker[w].participantsSnapshot) :
            (id # worker[w].chunk.SenderID /\ id \notin worker[w].noWriter)
               => WrittenTo(worker[w].participantsSnapshot[id], worker[w].chunk)

\* a chunk the handler broadcast under its own id has been fanned out over a
\* snapshot holding the handler and the telephony participant: the telephony
\* writer got its bytes, the handler's writer got nothing
C1_Witness ==
    \E w \in Workers :
        /\ FanoutDone(w)
        /\ worker[w].chunk.SenderID = ID(HandlerObj)
        /\ worker[w].participantsSnapshot["G"] = HandlerObj
        /\ worker[w].participantsSnapshot["A"] = "pA"
        /\ WrittenTo("pA", worker[w].chunk)
        /\ written[HandlerObj] = <<>>

\* C6 as stated: a panic of the backend client during the pull is caught and
\* the receive loop then exits cleanly: no unhandled failure follows while
\* the loop handles the result of that pull.
C6_PanicContained ==
    crashed # "receiveResponses: nil pointer dereference"

\* C7: with the Close calls made one after the other, no Close panics, every
\* session handle is closed at most once, the stop channel is closed at most
\* once and the handler's entry is deleted from the registry at most once.
C7_CloseTwice ==
    /\ crashed # "Close: close of closed channel"
    /\ \A x \in Sessions : sess.closes[x] <= 1
    /\ stats.stopSignals <= 1
    /\ stats.removed <= 1

\* two Close calls have returned, on a handler that was connected: one
\* session release, one stop signal, one removal
C7_Witness ==
    /\ \A k \in Closers : closer[k].pc = "done"
    /\ crashed = "none"
    /\ sess.closes[1] = 1
    /\ stats.stopSignals = 1
    /\ stats.removed = 1

\* the calls of Broadcast whose chunk entered the queue
Accepted == {i \in 1..Len(calls) : calls[i].case = "send"}

\* the calls whose chunk is in the queue, or held by a worker for its fan-out
Pending ==
    {chunkChan[j].seq : j \in 1..Len(chunkChan)}
    \cup {worker[w].chunk.seq : w \in {v \in Workers : worker[v].pc \in {"snapshot", "iter"}}}

\* the calls whose chunk some participant's writer received
Delivered == UNION {{written[p][k][1] : k \in 1..Len(written[p])} : p \in Objs}

\* the calls that found the queue full on a bridge that was not stopped
OnFullQueue == {i \in 1..Len(calls) : calls[i].full /\ ~calls[i].stopped}

\* C2: a Broadcast on a running bridge whose queue holds QueueCap chunks
\* returns nil, its chunk is neither queued nor ever written to a participant,
\* and the chunks queued before it stay queued in their order until the worker
\* takes them and delivers them.
C2_FullQueueDropsIncoming ==
    /\ \A i \in OnFullQueue :
            /\ calls[i].case = "default"
            /\ calls[i].ret = "nil"
            /\ i \notin Pending
            /\ i \notin Delivered
    /\ Accepted \subseteq (Pending \cup Delivered)
    /\ \A j \in 1..(Len(chunkChan) - 1) : chunkChan[j].seq < chunkChan[j + 1].seq
    /\ Len(chunkChan) <= QueueCap

\* a call was dropped on the full queue, and the QueueCap chunks queued
\* before it have all been written to the participant since
C2_Witness ==
    /\ \E i \in 1..Len(calls) : calls[i].case = "default" /\ calls[i].full
    /\ chunkChan = <<>>
    /\ \A i \in 1..QueueCap : i \in Delivered

\* C3 as stated: once Stop has closed the stop channel, every Broadcast
\* returns io.ErrClosedPipe and enqueues nothing.
C3_StoppedBroadcastFails ==
    \A i \in 1..Len(calls) :
        calls[i].stopped => calls[i].ret = ErrClosedPipe /\ calls[i].case # "send"

\* C4 as stated: every participant receives the chunks it receives in the
\* order in which Broadcast enqueued them.
C4_Fifo ==
    \A p \in Objs : \A j, k \in 1..Len(written[p]) :
        j < k => written[p][j][1] < written[p][k][1]

\* no worker is in the middle of a fan-out and nothing is queued
Quiescent ==
    /\ chunkChan = <<>>
    /\ \A w \in Workers : worker[w].pc \in {"off", "select", "done"}

\* C5 as stated: with Stop not called, the registry holds, once the workers
\* are idle, exactly the participants added and not removed afterwards by
\* RemoveParticipant.
C5_AddedNotRemoved ==
    (Quiescent /\ ~hist.cleared) => participants = hist.user

\* C5 amended: the registry holds exactly the participants that were added
\* and not afterwards removed by RemoveParticipant, by the batched removal of
\* the ids whose Write returned io.ErrClosedPipe, or by Stop's clearing.
C5_AddedNotRemovedNorDropped ==
    participants = hist.kept

\* the fan-out has dropped a participant that was added and never removed by
\* a call, while another added participant is still registered
C5_Witness ==
    /\ ~hist.cleared
    /\ Quiescent
    /\ \E id \in IDs : hist.user[id] # None /\ participants[id] = None
    /\ \E id \in IDs : hist.user[id] # None /\ participants[id] = hist.user[id]

\* C8 as stated: with Close called from two goroutines at once, the stop
\* channel is closed once (no close of a closed channel) and every session
\* handle is closed at most once.
C8_ConcurrentClose ==
    /\ crashed # "Close: close of closed channel"
    /\ stats.stopSignals <= 1
    /\ \A x \in Sessions : sess.closes[x] <= 1

\* C9 as stated: a second Stop, after or during the first, completes without
\* failure and leaves the bridge stopped.
C9_StopIdempotent ==
    /\ crashed # "Stop: close of closed channel"
    /\ \A s \in Stoppers : stopper[s] = "done" => stopChan = "closed"

\* C10 as stated: at most one fan-out worker is active at any time.
C10_OneWorker ==
    Cardinality({w \in Workers : worker[w].pc \notin {"off", "done"}}) <= 1

\* C11 as stated: at the step on which a Stop returns every fan-out worker
\* has exited and the registry is empty, and at the step on which a Stop
\* clears the registry every fan-out worker has exited.
C11_StopWaitsThenClears ==
    [][\A s \in Stoppers :
          /\ (stopper[s] = "return" /\ stopper'[s] = "done") =>
                /\ participants' = [i \in IDs |-> None]
                /\ \A w \in Workers : worker[w].pc \in {"off", "done"}
          /\ (stopper[s] = "clear" /\ stopper'[s] = "return") =>
                \A w \in Workers : worker[w].pc \in {"off", "done"}]_vars

\* the same for the workers whose Start had run its wg.Add(1) before Stop's
\* wait for the WaitGroup ended: they have exited when the registry is
\* cleared, and the clearing leaves the registry empty
StopWaitsForEarlierWorkers ==
    [][\A s \in Stoppers :
          (stopper[s] = "clear" /\ stopper'[s] = "return") =>
             /\ participants' = [i \in IDs |-> None]
             /\ \A w \in Workers :
                   worker[w].late \/ worker[w].pc \in {"off", "done"}]_vars

\* the calls of the handler's writer, in the order in which they were made
Writes == stats.writes

\* C12: a call of the handler's writer made while the handler has no session
\* or its closed flag is set returns io.ErrClosedPipe and sends nothing to the
\* backend (no "Hello" turn, no audio); the worker that got that error has
\* the handler's id marked for removal until the end of the fan-out, and has
\* deleted it from the registry once the fan-out is over.
C12_ClosedWriterRejects ==
    /\ \A i \in 1..Len(Writes) :
          Writes[i].rejected =>
             /\ Writes[i].ret = ErrClosedPipe
             /\ Writes[i].hello = "none"
             /\ \A w \in Workers :
                   worker[w].chunk.seq = Writes[i].seq
                      => ID(HandlerObj) \in worker[w].failed
    /\ stats.sends = Cardinality({i \in 1..Len(Writes) :
                          /\ ~Writes[i].rejected
                          /\ Writes[i].data # <<>>
                          /\ Writes[i].ret = WriteOk})
    /\ \A w \in Workers :
          ID(HandlerObj) \in worker[w].failed =>
             IF worker[w].pc \in {"iter", "gfirst", "ghello", "gsend", "remove"}
             THEN ID(HandlerObj) \in worker[w].participantsToRemove
             ELSE participants[ID(HandlerObj)] = None

\* the writer of a connected handler was called with the closed flag set, and
\* it is the worker that has deleted the handler from the registry: neither
\* Close nor the receive loop has removed it
C12_Witness ==
    /\ \E i \in 1..Len(Writes) : Writes[i].rejected /\ Writes[i].data # <<>>
    /\ handler.session # NilSession
    /\ handler.sessionClosed
    /\ stats.removed = 0
    /\ participants[ID(HandlerObj)] = None
    /\ \A w \in Workers : worker[w].pc \in {"off", "select"}

\* the calls of the writer that sent the "Hello" turn, and the calls that were
\* accepted with a non-empty chunk
HelloWrites == {i \in 1..Len(Writes) : Writes[i].hello # "none"}
AcceptedWrites == {i \in 1..Len(Writes) : ~Writes[i].rejected /\ Writes[i].data # <<>>}

\* the calls of the writer that have passed the check and not yet reached the
\* resampling: the "Hello" turn of such a call may be still to come
BeforeHello ==
    {i \in 1..Len(Writes) :
        \E w \in Workers : /\ worker[w].pc \in {"gfirst", "ghello"}
                            /\ worker[w].chunk.seq = Writes[i].seq
                            /\ Writes[i].ret = "pending"}

\* C13: over all the calls of the handler's writer the "Hello" turn is sent at
\* most once, by the first call accepted with a non-empty chunk (once that
\* call has come to it) and by no rejected call or empty chunk; it is sent
\* before any audio is forwarded; and a call whose "Hello" turn failed goes on
\* to forward its audio like any other: it does not return the terminal error.
C13_HelloOnce ==
    /\ Cardinality(HelloWrites) <= 1
    /\ stats.hello = Cardinality(HelloWrites)
    /\ \A i \in HelloWrites :
          i \in AcceptedWrites /\ \A j \in AcceptedWrites : i <= j
    /\ \A i \in AcceptedWrites :
          (\A j \in AcceptedWrites : i <= j) => i \in HelloWrites \cup BeforeHello
    /\ stats.sends > 0 => stats.hello = 1
    /\ \A i \in HelloWrites :
          Writes[i].hello = "failed" =>
             /\ Writes[i].ret # ErrClosedPipe
             /\ Writes[i].ret = "pending" =>
                   \E w \in Workers :
                      worker[w].pc = "gsend" /\ worker[w].chunk.seq = Writes[i].seq

\* an empty chunk came first and was a no-op; the next chunk sent the "Hello"
\* turn, which failed, and its audio was forwarded all the same
C13_Witness ==
    /\ Len(Writes) >= 2
    /\ Writes[1].data = <<>> /\ Writes[1].ret = WriteOk /\ Writes[1].hello = "none"
    /\ Writes[2].data # <<>> /\ Writes[2].hello = "failed" /\ Writes[2].ret = WriteOk
    /\ stats.sends = 1

\* the receive loops that a clean end of stream or an error of the pull ended
EndedLoops == {l \in Starters : loop[l].ended}

\* C14: a receive loop whose pull returned io.EOF or an error never pulls
\* again: it sets the closed flag, then deletes the handler's id from the
\* registry and returns; once it has returned the flag is set, the id is out
\* of the registry, and every snapshot a worker takes from then on is without
\* the handler, so that no chunk fanned out from it reaches the handler's
\* writer.
C14_StreamEndIsTerminal ==
    /\ [](\A l \in EndedLoops :
            /\ loop[l].pc \in {"mark", "unregister", "return", "done"}
            /\ loop[l].pc \in {"unregister", "return", "done"}
                  => handler.sessionClosed
            /\ loop[l].pc \in {"return", "done"}
                  => participants[ID(HandlerObj)] = None)
    /\ [][(\E l \in EndedLoops : loop[l].pc \in {"return", "done"}) =>
            \A w \in Workers :
               /\ worker'[w].participantsSnapshot # worker[w].participantsSnapshot
                     => worker'[w].participantsSnapshot[ID(HandlerObj)] = None
               /\ (worker[w].pc = "snapshot" /\ worker'[w].pc # "snapshot")
                     => ID(HandlerObj) \notin worker'[w].todo]_vars

\* the stream has ended and the loop has returned; a chunk broadcast by the
\* telephony side was fanned out afterwards, and the handler's writer, which
\* had received the chunk before it, did not receive this one
C14_Witness ==
    /\ \E l \in EndedLoops : loop[l].pc = "done"
    /\ \A k \in Closers : closer[k].pc = "idle"
    /\ Len(written[HandlerObj]) = 1
    /\ \E w \in Workers :
          /\ worker[w].pc = "select"
          /\ worker[w].chunk.seq = 2
          /\ worker[w].chunk.SenderID = "A"
          /\ worker[w].participantsSnapshot[ID(HandlerObj)] = None
          /\ written[HandlerObj][1][1] = 1

\* C15: every Close that has begun returns, whatever the receive loop does
\* (it may stay in its pull for ever), unless a panic of another goroutine
\* ends the process first; and a Close that has returned has closed the
\* session handle it took, cancelled the context and left the registry
\* without the handler.
C15_CloseTerminates ==
    /\ \A k \in Closers :
          (closer[k].pc = "select") ~> (closer[k].pc = "done" \/ ~Alive)
    /\ [](\A k \in Closers :
            closer[k].pc = "done" =>
               /\ handler.cancelled
               /\ participants[ID(HandlerObj)] = None
               /\ closer[k].session # NilSession
                     => sess.closes[closer[k].session] >= 1)

\* a Close has returned after the timeout of its wait, the session closed and
\* the handler out of the registry, while the receive loop is still in its pull
C15_Witness ==
    /\ \E k \in Closers :
          /\ closer[k].pc = "done"
          /\ closer[k].timedOut
          /\ closer[k].session # NilSession
          /\ sess.closes[closer[k].session] = 1
    /\ \E l \in Starters : loop[l].pc = "recv"
    /\ handler.cancelled
    /\ participants[ID(HandlerObj)] = None
    /\ Alive

\* the participant objects the registry holds
Registered == {participants[i] : i \in Present(participants)}

\* C16: FlushQueues is called once for each message that has the interrupted
\* flag (the calls made, and the one a loop is about to make, are as many as
\* those messages); a call flushes once each participant that was registered
\* when the call copied the registry and that implements QueueFlusher, and no
\* participant that does not.
C16_FlushOncePerInterrupt ==
    /\ [](/\ stats.flushCalls
              + Cardinality({l \in Starters : loop[l].pc \in {"flush", "flushing"}})
              = stats.interrupted
          /\ \A p \in Objs \ Flushers : stats.flushed[p] = 0
          /\ \A p \in Flushers : stats.flushed[p] <= stats.flushCalls)
    /\ [][/\ \A l \in Starters :
              loop[l].pc = "flush" /\ loop'[l].pc = "flushing"
                 => Held(loop'[l].participantsSnapshot) = Registered
          /\ stats'.flushCalls # stats.flushCalls =>
              \E l \in Starters :
                 /\ loop[l].pc = "flushing" /\ loop'[l].pc = "select"
                 /\ stats'.flushCalls = stats.flushCalls + 1
                 /\ \A p \in Objs :
                       stats'.flushed[p] = stats.flushed[p]
                          + (IF p \in Flushers
                                /\ p \in Held(loop[l].participantsSnapshot)
                             THEN 1 ELSE 0)]_vars

\* one interrupted message was handled with the telephony participant and the
\* handler registered: one FlushQueues, one FlushQueue on the telephony
\* participant, none on the handler
C16_Witness ==
    /\ stats.interrupted = 1
    /\ stats.flushCalls = 1
    /\ stats.flushed["pA"] = 1
    /\ stats.flushed[HandlerObj] = 0
    /\ participants[ID(HandlerObj)] = HandlerObj
    /\ participants["A"] = "pA"

\* C17 as stated: once the closed flag of a handler is set (by Close, by the
\* end of the stream or by an error of the pull), no step gives the handler a
\* session again or spawns a receive loop, and at most one receive loop is
\* ever spawned.
C17_OneDirectional ==
    /\ [][handler.sessionClosed =>
            /\ handler'.session \in {handler.session, NilSession}
            /\ \A l \in Starters : loop[l].pc = "off" => loop'[l].pc = "off"]_vars
    /\ [](Cardinality({l \in Starters : loop[l].pc # "off"}) <= 1)

\* C18 as stated: once a Close has returned, no receive loop of the handler
\* is running, the handler holds no session, and every session Connect gave
\* it has been closed.
C18_NothingOutlivesClose ==
    (\E k \in Closers : closer[k].pc = "done") =>
        /\ \A l \in Starters : loop[l].pc \in {"off", "done"}
        /\ handler.session = NilSession
        /\ \A t \in Starters :
              starter[t].pc = "done" => sess.closes[starter[t].session] >= 1

\* C19: a Write that returned an error other than io.ErrClosedPipe does not
\* mark its participant for removal, and the batched removal that ends the
\* fan-out leaves that participant's registry entry as it is; the worker goes
\* on (it neither exits nor panics), and at the end of the fan-out the chunk
\* has been written to every other entry of the snapshot that is not the
\* sender and has a writer.
C19_TransientFailureIsLocal ==
    /\ [](\A w \in Workers :
            worker[w].errored # {} =>
               /\ worker[w].errored \cap worker[w].participantsToRemove = {}
               /\ worker[w].pc \notin {"off", "done"}
               /\ Alive
               /\ FanoutDone(w) =>
                     \A id \in Present(worker[w].participantsSnapshot) :
                        (id # worker[w].chunk.SenderID /\ id \notin worker[w].noWriter)
                           => WrittenTo(worker[w].participantsSnapshot[id], worker[w].chunk))
    /\ [][\A w \in Workers :
            (worker[w].pc = "remove" /\ worker'[w].pc # "remove") =>
               \A id \in worker[w].errored : participants'[id] = participants[id]]_vars

\* a chunk of the handler was fanned out to pA and pB: the write to pA failed
\* with a transient error, pB got the chunk, and pA is still registered
C19_Witness ==
    \E w \in Workers :
        /\ worker[w].pc = "select"
        /\ worker[w].chunk.SenderID = "G"
        /\ worker[w].errored = {"A"}
        /\ worker[w].participantsSnapshot["A"] = "pA"
        /\ worker[w].participantsSnapshot["B"] = "pB"
        /\ WrittenTo("pA", worker[w].chunk)
        /\ WrittenTo("pB", worker[w].chunk)
        /\ participants["A"] = "pA"

\* C20 as stated: a call of the handler's writer whose backend send failed
\* makes the worker drop the handler (its id is marked for removal by the
\* fan-out of that chunk), and the writer is not called again afterwards.
C20_SendFailureIsTerminal ==
    \A i \in 1..Len(Writes) :
        Writes[i].ret = ErrOther =>
           /\ i = Len(Writes)
           /\ \A w \in Workers :
                 worker[w].chunk.seq = Writes[i].seq
                    => ID(HandlerObj) \in worker[w].failed

\* C21: the queue never holds more chunks than its capacity, whatever the
\* interleaving of the Broadcast calls with the worker's receives.
C21_QueueBounded ==
    Len(chunkChan) <= QueueCap

\* the queue is at its capacity, a Broadcast has found it so and dropped its
\* chunk, and the worker has taken chunks out of it before
C21_Witness ==
    /\ Len(chunkChan) = QueueCap
    /\ \E i \in 1..Len(calls) : calls[i].case = "default" /\ calls[i].full
    /\ \E w \in Workers : worker[w].chunk # NoChunk

\* C22: no step of the writer, of the receive loop, of Start or of Close sets
\* the closed flag of the handler back to false.
C22_ClosedFlagMonotonic ==
    [][handler.sessionClosed => handler'.sessionClosed]_vars

\* the flag is set, and Start, the receive loop, Close and a call of the
\* writer have all run to their end on the handler
C22_Witness ==
    /\ handler.sessionClosed
    /\ \E t \in Starters : starter[t].pc = "done" /\ loop[t].pc = "done"
    /\ \E k \in Closers : closer[k].pc = "done"
    /\ \E i \in 1..Len(Writes) : Writes[i].rejected
    /\ \E i \in 1..Len(Writes) : Writes[i].ret = WriteOk

\* the concatenation of a sequence of slices
RECURSIVE Concat(_)
Concat(chunks) ==
    IF chunks = <<>> THEN <<>> ELSE Head(chunks) \o Concat(Tail(chunks))

\* ceil(a / b) for a >= 0 and b > 0
CeilDiv(a, b) == (a + b - 1) \div b

\* what a returned value of splitIntoChunks is for its arguments: the
\* concatenation of the slices is the buffer; for a buffer of L > 0 bytes the
\* chunk size S is positive, there are ceil(L/S) slices, every slice but the
\* last has S bytes and the last has L mod S bytes, or S when S divides L; an
\* empty buffer gives no slice
SplitPartition ==
    LET L == Len(split.audioData)
        S == BytesPerChunk(split.sampleRate, split.chunkDurationMs)
        N == Len(split.chunks)
    IN /\ Concat(split.chunks) = split.audioData
       /\ L = 0 => N = 0
       /\ L > 0 =>
             /\ S > 0
             /\ N = CeilDiv(L, S)
             /\ \A i \in 1..(N - 1) : Len(split.chunks[i]) = S
             /\ Len(split.chunks[N]) = (IF L % S = 0 THEN S ELSE L % S)

\* C23 as stated: for every buffer, sample rate and duration the call of
\* splitIntoChunks gives slices that concatenate to the buffer, ceil(L/S) of
\* them, the last of L mod S bytes (S when S divides L).
C23_SplitPartition ==
    (split.pc = "loop") ~> (split.pc = "done" /\ SplitPartition)

\* every value splitIntoChunks returns is the partition of its buffer
SplitPartitionWhenReturned == split.pc = "done" => SplitPartition

\* C24 as stated: a call of splitIntoChunks on a non-empty buffer returns,
\* with at least one slice, whatever the sample rate and the duration.
C24_SplitTerminates ==
    (split.pc = "loop" /\ split.audioData # <<>>)
        ~> (split.pc = "done" /\ Len(split.chunks) >= 1)

(***************************************************************************)
(* C25: during the fan-out of one chunk the worker deletes nothing from    *)
(* the registry while entries of its snapshot are still to be processed:   *)
(* it reaches the removal only with the whole snapshot handled, no step of *)
(* the worker outside the removal changes the registry, and the removal    *)
(* deletes every marked id in one critical section and returns to the      *)
(* select.                                                                 *)
(***************************************************************************)
C25_RemovalAfterIteration ==
    [][\A w \in Workers :
          /\ worker'[w].pc = "remove" => worker'[w].todo = {}
          /\ (worker'[w] # worker[w] /\ worker[w].pc # "remove")
                  => participants' = participants
          /\ (worker'[w] # worker[w] /\ worker[w].pc = "remove")
                  => /\ participants' =
                            Delete(participants, worker[w].participantsToRemove)
                     /\ worker'[w].pc = "select"]_vars

\* a fan-out in which both writes returned io.ErrClosedPipe has ended, and
\* the two participants are gone
C25_Witness ==
    \E w \in Workers :
        /\ worker[w].pc = "select"
        /\ worker[w].failed = {"A", "B"}
        /\ worker[w].todo = {}
        /\ participants["A"] = None
        /\ participants["B"] = None

\* the position of a Close call in its body
CloseRank(pc) ==
    CASE pc = "idle" -> 0 [] pc = "select" -> 1 [] pc = "close" -> 2
      [] pc = "wait" -> 3 [] pc = "swap" -> 4 [] pc = "release" -> 5
      [] pc = "cancel" -> 6 [] pc = "remove" -> 7 [] pc = "done" -> 8

(***************************************************************************)
(* C26: a Close call sets the closed flag, then signals the receive loop   *)
(* (unless the signal has been given), then waits, then takes and closes   *)
(* the session handle if there is one, then cancels the context, then      *)
(* removes the handler from the registry. Each effect happens at its place *)
(* in that order and nowhere else, and the closed flag is set when the     *)
(* stop channel is closed and when the session handle is closed.           *)
(***************************************************************************)
C26_CloseOrder ==
    [][/\ \A k \in Closers :
            closer'[k].pc # closer[k].pc =>
               /\ CloseRank(closer'[k].pc) > CloseRank(closer[k].pc)
               /\ CloseRank(closer'[k].pc) - CloseRank(closer[k].pc) <= 2
               /\ CloseRank(closer'[k].pc) - CloseRank(closer[k].pc) = 2
                      => closer[k].pc = "select" /\ handler.stopChan = "closed"
               /\ closer[k].pc = "idle" => handler'.sessionClosed
               /\ closer[k].pc = "swap" =>
                      /\ closer'[k].session = handler.session
                      /\ handler'.session = NilSession
               /\ closer[k].pc = "release" =>
                      /\ handler.sessionClosed
                      /\ closer[k].session # NilSession
                            => sess'.closes[closer[k].session]
                                  = sess.closes[closer[k].session] + 1
               /\ closer[k].pc = "remove" =>
                      participants' = RemoveEntry(participants, ID(HandlerObj))
       /\ handler'.stopChan # handler.stopChan =>
            /\ handler.sessionClosed
            /\ \E k \in Closers :
                  closer[k].pc = "close" /\ closer'[k].pc = "wait"
       /\ sess'.closes # sess.closes =>
            \E k \in Closers :
                  closer[k].pc = "release" /\ closer'[k].pc = "cancel"
       /\ handler'.cancelled # handler.cancelled =>
            \E k \in Closers :
                  closer[k].pc = "cancel" /\ closer'[k].pc = "remove"]_vars

\* a Close of a started handler has gone through all its steps: it gave the
\* stop signal, waited for the loop to end, closed the handle it took
C26_Witness ==
    \E k \in Closers :
        /\ closer[k].pc = "done"
        /\ ~closer[k].timedOut
        /\ closer[k].session # NilSession
        /\ sess.closes[closer[k].session] = 1
        /\ stats.stopSignals = 1
        /\ handler.sessionClosed
        /\ handler.cancelled
        /\ handler.session = NilSession
        /\ participants[ID(HandlerObj)] = None

(***************************************************************************)
(* C27: neither the worker, while it writes to the participants of its     *)
(* snapshot, nor FlushQueues, while it calls FlushQueue on those of its    *)
(* own, holds m.mu; so while a write to the handler's sink is in progress, *)
(* or a flush is, AddParticipant and RemoveParticipant can take the lock   *)
(* and complete.                                                           *)
(***************************************************************************)
C27_NoLockDuringIO ==
    /\ \A w \in Workers :
          worker[w].pc \in {"iter", "gfirst", "ghello", "gsend"}
             => worker[w].mu = "none"
    /\ \A l \in Starters : loop[l].pc = "flushing" => loop[l].mu = "none"
    /\ (/\ Alive
        /\ \/ \E w \in Workers :
                 worker[w].pc \in {"iter", "gfirst", "ghello", "gsend"}
           \/ \E l \in Starters : loop[l].pc = "flushing")
          => /\ \A p \in BaseObjs : ENABLED AddParticipant(p)
             /\ \A id \in IDs : ENABLED RemoveParticipant(id)

\* the worker is inside the Write of the handler's sink and the receive loop
\* inside FlushQueues; since both copied the registry, pB has been added
C27_Witness ==
    /\ \E w \in Workers :
          /\ worker[w].pc = "gsend"
          /\ worker[w].participantsSnapshot["B"] = None
    /\ \E l \in Starters :
          /\ loop[l].pc = "flushing"
          /\ loop[l].participantsSnapshot["B"] = None
    /\ participants["B"] = "pB"

\* C28 as stated: SetWriter and Writer exclude each other, so the worker
\* never loads a participant's writer while a SetWriter is storing into it.
C28_SetWriterExclusive == ~setter.raced

\* C29 as stated: the batched removal deletes only the participants whose
\* write failed; an id that a different participant has been registered under
\* since the worker's snapshot keeps that participant.
C29_RemovesOnlyFailed ==
    [][\A w \in Workers :
          (worker[w].pc = "remove" /\ worker'[w].pc # "remove") =>
             \A id \in worker[w].participantsToRemove :
                (/\ participants[id] # None
                 /\ participants[id] # worker[w].participantsSnapshot[id])
                    => participants'[id] = participants[id]]_vars

\* C30 as stated: a handler that NewGeminiHandler registered is registered
\* when its Start has returned nil and the handler has not been ended or
\* closed since, whatever chunks were fanned out before the connection was
\* made.
C30_RegisteredWhenActive ==
    (/\ Alive
     /\ \E t \in Starters : starter[t].pc = "done"
     /\ ~handler.sessionClosed
     /\ \A k \in Closers : closer[k].pc = "idle")
        => participants[ID(HandlerObj)] = HandlerObj

\* C31 as stated: a call of the handler's writer that has passed the check of
\* the session and the closed flag never calls the backend send on a nil
\* session, whatever Close does meanwhile, and the worker does not crash.
C31_NoSendOnNilSession == crashed # "Write: nil pointer dereference"

\* Stop has returned on a bridge whose Start had returned by then
StoppedStarted ==
    /\ \E s \in Stoppers : stopper[s] = "done"
    /\ \E w \in Workers : worker[w].pc # "off"
    /\ \A w \in Workers : ~worker[w].afterStop

\* C32 as stated: once Stop has returned on a bridge that was started once,
\* no step calls the writer of a participant and no step takes a chunk from
\* the queue: the chunks that were in the queue and those a later Broadcast
\* puts there stay undelivered.
C32_NoWriteAfterStop ==
    [][StoppedStarted =>
          /\ written' = written
          /\ Len(chunkChan') >= Len(chunkChan)
          /\ SubSeq(chunkChan', 1, Len(chunkChan)) = chunkChan]_vars

\* the same for a bridge whose Start had returned before Stop finished its
\* wait for the WaitGroup: no worker is left and nothing is delivered
NoWriteAfterOrderedStop ==
    /\ []((StoppedStarted /\ \A w \in Workers : ~worker[w].late)
            => \A w \in Workers : worker[w].pc \in {"off", "done"})
    /\ [][(StoppedStarted /\ \A w \in Workers : ~worker[w].late) =>
            /\ written' = written
            /\ Len(chunkChan') >= Len(chunkChan)
            /\ SubSeq(chunkChan', 1, Len(chunkChan)) = chunkChan]_vars

====
